---- MODULE Spec2Model ----
(***************************************************************************)
(* Seasons repository of hsc-auth-api (createSeasonsRepo).                 *)
(*                                                                         *)
(* The committed contents of the `seasons` table are the shared state.     *)
(* insertSeason, patchSeasonBySlug and setSeasonClosed are single          *)
(* autocommit statements.  activateSeasonTx is a multi-statement           *)
(* transaction; every awaited statement of it is one step, so steps of     *)
(* different calls interleave.                                             *)
(*                                                                         *)
(* Storage is modelled as the statements of the code ask for it: a         *)
(* locking read (SELECT ... FOR UPDATE) and an UPDATE take an exclusive    *)
(* lock on every row that matches their WHERE clause, wait while such a    *)
(* row is locked by another transaction, and read the latest committed     *)
(* version.  Uncommitted writes are private to the transaction until       *)
(* COMMIT; ROLLBACK or closing the connection discards them.  A statement  *)
(* is taken to acquire its locks in one step.                              *)
(***************************************************************************)
EXTENDS Integers, FiniteSets, Sequences, TLC

\* ---------------------------------------------------------------- bounds
NumSlugs == 3
MaxTx == 2
MaxCalls == 2

Slugs == 1..NumSlugs
Txs == 1..MaxTx

Names == {"n1", "n2"}
Descriptions == {"d1"}
Null == "null"
Undefined == "undefined"

Statuses == {"draft", "active", "closed"}

\* Bounds of the HTTP application: session ids, news ids, clock.
MaxSessions == 2
MaxNews == 2
MaxTime == 2

Sids == 1..MaxSessions
\* The users requests are made for.
UserIds == {1, 2}
NewsIds == 1..MaxNews

VARIABLES
    seasons,    \* committed table: slug -> row with the columns of Row
    txPc,       \* position of each activateSeasonTx call
    txSlug,     \* its argument
    txTarget,   \* status of targetRows[0], "null" when no row, "unread" before
    txLocks,    \* rows the transaction holds exclusive locks on
    txWrites,   \* its uncommitted status updates: slug -> status
    txResult,   \* value the call returned
    txDetail,   \* statement whose failure was caught ("none" if none)
    txConn,     \* its connection: createConnection, end and rollback calls made
    calls,      \* number of repository calls started so far
    last,       \* what the latest completed call did and returned, when recorded
    adminKey,   \* process.env.ADMIN_KEY
    boot,       \* the schema bootstrap promise
    dbReady,    \* let dbReady
    dbError,    \* let dbError
    sessions,   \* table sessions: id -> row
    users,      \* ids of the rows of table users
    news,       \* table news: id -> row
    newsIds,    \* ids the table news has handed out so far (AUTO_INCREMENT)
    now,        \* the clock (Date.now() and NOW())
    resp        \* the latest response of the HTTP application

\* The state of the HTTP application (src/index.js, src/sessions.js).
appVars == <<adminKey, boot, dbReady, dbError, sessions, users, news, newsIds, now, resp>>

\* The state of the seasons repository.
repoVars == <<seasons, txPc, txSlug, txTarget, txLocks, txWrites, txResult, txDetail,
              txConn, calls, last>>

vars == <<repoVars, appVars>>

txVars == <<txPc, txSlug, txTarget, txLocks, txWrites, txResult, txDetail, txConn>>

NoWrites == [s \in {} |-> "draft"]

\* ------------------------------------------------------------ the table
ActiveRows(tbl) == {s \in DOMAIN tbl : tbl[s].status = "active"}

\* A row of the table.  The id is assigned by storage, one per row; in the
\* model the row of slug k gets id k.
Row(slug, st, n, d, sa, ea) ==
    [id |-> slug, slug |-> slug, name |-> n, description |-> d,
     start_at |-> sa, end_at |-> ea, status |-> st]

Columns == {"id", "slug", "name", "description", "start_at", "end_at", "status"}

\* Tables the program can have produced: unique slugs, at most one active row.
\* Slugs are interchangeable, so the initial tables are listed up to renaming:
\* the rows present are 1..k, the active one first, then drafts, then closed.
StatusRank(st) == CASE st = "active" -> 0 [] st = "draft" -> 1 [] OTHER -> 2

Tables ==
    {tbl \in UNION {[1..k -> {Row(i, st, "n1", Null, "s1", "e1") :
                                 i \in 1..k, st \in Statuses}] : k \in 0..NumSlugs} :
        /\ \A i \in DOMAIN tbl : tbl[i].slug = i
        /\ Cardinality(ActiveRows(tbl)) <= 1
        /\ \A i \in DOMAIN tbl : \A j \in DOMAIN tbl :
              i < j => StatusRank(tbl[i].status) <= StatusRank(tbl[j].status)}

\* Tables with any number of active rows (accidental duplicates), up to
\* renaming.
TablesAnyActive ==
    {tbl \in UNION {[1..k -> {Row(i, st, "n1", Null, "s1", "e1") :
                                 i \in 1..k, st \in Statuses}] : k \in 0..NumSlugs} :
        /\ \A i \in DOMAIN tbl : tbl[i].slug = i
        /\ \A i \in DOMAIN tbl : \A j \in DOMAIN tbl :
              i < j => StatusRank(tbl[i].status) <= StatusRank(tbl[j].status)}

\* --------------------------------------------------------- row locking
LockedByOther(t, s) == \E u \in Txs \ {t} : s \in txLocks[u]

LockedByAny(s) == \E u \in Txs : s \in txLocks[u]

\* What transaction t reads for the status of row s (its own writes first).
CurrentStatus(t, s) ==
    IF s \in DOMAIN txWrites[t] THEN txWrites[t][s] ELSE seasons[s].status

\* ------------------------------------------------ statements of the code
\* targetRows[0] ?? null, reduced to the status column the code looks at.
TargetOf(tbl, slug) == IF slug \in DOMAIN tbl THEN tbl[slug].status ELSE Null

\* Variant: the missing-row check never fires.
TargetMissingNever(target) == FALSE

\* if (!target)
TargetMissing(target) == target = Null

\* Variant: the closed check never fires.
TargetClosedNever(target) == FALSE

\* Variant: every status but draft is refused as closed.
TargetClosedNotDraft(target) == target # "draft"

\* if (target.status === "closed")
TargetClosed(target) == target = "closed"

\* SELECT id FROM seasons WHERE status = 'active' FOR UPDATE
ActiveLockSet(tbl) == ActiveRows(tbl)

\* Variant: the demote statement stops after one row.
DemoteSetOne(t) ==
    LET all == {s \in DOMAIN seasons : CurrentStatus(t, s) = "active" /\ s # txSlug[t]}
    IN  IF all = {} THEN {} ELSE {CHOOSE s \in all : TRUE}

\* Variant: the demote statement matches no row.
DemoteSetNone(t) == {}

\* UPDATE seasons SET status = 'draft' WHERE status = 'active' AND slug <> ?
DemoteSet(t) ==
    {s \in DOMAIN seasons : CurrentStatus(t, s) = "active" /\ s # txSlug[t]}

\* Variant: demotion closes the previous season.
DemotedStatusClosed == "closed"

DemotedStatus == "draft"

\* UPDATE seasons SET status = 'active' WHERE slug = ?
PromoteSet(t) == {s \in DOMAIN seasons : s = txSlug[t]}

PromotedStatus == "active"

\* Writes w on top of writes v (a later statement overwrites an earlier one).
Overwrite(v, w) ==
    [s \in DOMAIN v \cup DOMAIN w |-> IF s \in DOMAIN w THEN w[s] ELSE v[s]]

\* conn.commit(): the transaction's writes become the committed rows.
Committed(tbl, w) ==
    [s \in DOMAIN tbl |->
        IF s \in DOMAIN w THEN [tbl[s] EXCEPT !.status = w[s]] ELSE tbl[s]]

\* Variant: the writes of a failed transaction stay.
RolledBackPartial(tbl, w) == Committed(tbl, w)

\* conn.rollback() / conn.end() without commit: the writes are discarded.
RolledBack(tbl, w) == tbl

\* ------------------------------------------------- connections, records
NoConn == [opened |-> 0, ended |-> 0, rollbacks |-> 0]

\* Variant: a failed transaction returns without closing its connection.
EndsInFinallyUnlessFailed(result) == IF result = "tx_failed" THEN 0 ELSE 1

\* finally { await conn.end() }: once on every way out of activateSeasonTx.
EndsInFinally(result) == 1

\* Variant: the catch block returns without rolling back.
RollbacksIssuedNotInCatch(result, detail) ==
    IF result \in {"season_not_found", "season_closed"} \/ detail = "rollback"
    THEN 1 ELSE 0

\* conn.rollback() calls made by a call that ends with this result: one on
\* the not-found and closed paths, one in the catch block (after the failed
\* one, when the statement that threw was itself a rollback).
RollbacksIssued(result, detail) ==
    CASE result \in {"season_not_found", "season_closed"} -> 1
      [] result = "tx_failed" -> IF detail = "rollback" THEN 2 ELSE 1
      [] OTHER -> 0

\* The record of a completed call.  Calls are recorded only in the
\* specifications that start from a recording state.
NotRecorded ==
    [op |-> "off", slug |-> 0, ret |-> 0, rows |-> << >>, result |-> "none",
     opened |-> 0, ended |-> 0, stmts |-> 0, keys |-> {}, nulls |-> {}]

NoCall == [NotRecorded EXCEPT !.op = "none"]

Recorded(r) == IF last.op = "off" THEN last ELSE r

\* --------------------------------------------------------------- Init
\* SQL NULL in a TIMESTAMP column; the clock starts after it.
NullTime == 0

\* No cookie, an empty cookie: readSessionId gives null.
NoSid == 0

\* getSession returned null.
NoUser == 0

\* The record of a response (or of a call of a function of sessions.js):
\* route or function, HTTP status, error code of the body, user id and
\* session id of the body or return value, slugs of the news items of the
\* body, connections opened and ended, whether an error was thrown to the
\* caller.
NoResponse ==
    [op |-> "none", status |-> 0, error |-> "none", user |-> NoUser, sid |-> NoSid,
     items |-> {}, opened |-> 0, ended |-> 0, threw |-> FALSE]

\* The HTTP application while the specifications of the seasons repository
\* run: not configured, nothing stored, no request.
AppNotStarted ==
    /\ adminKey = Undefined
    /\ boot = "skipped"
    /\ dbReady = FALSE
    /\ dbError = Null
    /\ sessions = << >>
    /\ users = {}
    /\ news = << >>
    /\ newsIds = 0
    /\ now = 1
    /\ resp = NoResponse

Init ==
    /\ seasons \in Tables
    /\ txPc = [t \in Txs |-> "idle"]
    /\ txSlug = [t \in Txs |-> 0]
    /\ txTarget = [t \in Txs |-> "unread"]
    /\ txLocks = [t \in Txs |-> {}]
    /\ txWrites = [t \in Txs |-> NoWrites]
    /\ txResult = [t \in Txs |-> "none"]
    /\ txDetail = [t \in Txs |-> "none"]
    /\ txConn = [t \in Txs |-> NoConn]
    /\ calls = 0
    /\ last = NotRecorded
    /\ AppNotStarted

\* ------------------------------------------------- activateSeasonTx(slug)
InFlight(t) == txPc[t] \notin {"idle", "returned"}

\* mysql.createConnection + conn.beginTransaction().  Connections are
\* interchangeable: a new call takes the first one not in use.
Begin(t, slug) ==
    /\ ~InFlight(t)
    /\ \A u \in Txs : u < t => InFlight(u)
    /\ calls < MaxCalls
    /\ calls' = calls + 1
    /\ txPc' = [txPc EXCEPT ![t] = "begun"]
    /\ txSlug' = [txSlug EXCEPT ![t] = slug]
    /\ txTarget' = [txTarget EXCEPT ![t] = "unread"]
    /\ txLocks' = [txLocks EXCEPT ![t] = {}]
    /\ txWrites' = [txWrites EXCEPT ![t] = NoWrites]
    /\ txResult' = [txResult EXCEPT ![t] = "none"]
    /\ txDetail' = [txDetail EXCEPT ![t] = "none"]
    /\ txConn' = [txConn EXCEPT ![t] = [opened |-> 1, ended |-> 0, rollbacks |-> 0]]
    /\ UNCHANGED <<seasons, last>>
    /\ UNCHANGED appVars

\* SELECT id, slug, status FROM seasons WHERE slug = ? FOR UPDATE
LockTarget(t) ==
    /\ txPc[t] = "begun"
    /\ ~LockedByOther(t, txSlug[t])
    /\ txTarget' = [txTarget EXCEPT ![t] = TargetOf(seasons, txSlug[t])]
    /\ txLocks' = [txLocks EXCEPT ![t] = {txSlug[t]} \cap DOMAIN seasons]
    /\ txPc' = [txPc EXCEPT ![t] = "targetRead"]
    /\ UNCHANGED <<seasons, txSlug, txWrites, txResult, txDetail, txConn, calls, last>>
    /\ UNCHANGED appVars

\* The call returns: its locks are released with the transaction
\* (finally: conn.end()).
ReturnWith(t, result, detail) ==
    /\ txPc' = [txPc EXCEPT ![t] = "returned"]
    /\ txResult' = [txResult EXCEPT ![t] = result]
    /\ txDetail' = [txDetail EXCEPT ![t] = detail]
    /\ txLocks' = [txLocks EXCEPT ![t] = {}]
    /\ txWrites' = [txWrites EXCEPT ![t] = NoWrites]
    /\ txConn' = [txConn EXCEPT ![t] =
                     [opened |-> @.opened,
                      ended |-> @.ended + EndsInFinally(result),
                      rollbacks |-> @.rollbacks + RollbacksIssued(result, detail)]]
    /\ last' = Recorded([op |-> "activate", slug |-> txSlug[t], ret |-> 0,
                         rows |-> << >>, result |-> result,
                         opened |-> txConn[t].opened,
                         ended |-> txConn[t].ended + EndsInFinally(result),
                         stmts |-> 0, keys |-> {}, nulls |-> {}])
    /\ UNCHANGED <<txSlug, txTarget, calls>>
    /\ UNCHANGED appVars

\* if (!target) { rollback; return season_not_found }
RollbackNotFound(t) ==
    /\ txPc[t] = "targetRead"
    /\ TargetMissing(txTarget[t])
    /\ seasons' = RolledBack(seasons, txWrites[t])
    /\ ReturnWith(t, "season_not_found", "none")

\* if (target.status === "closed") { rollback; return season_closed }
RollbackClosed(t) ==
    /\ txPc[t] = "targetRead"
    /\ ~TargetMissing(txTarget[t])
    /\ TargetClosed(txTarget[t])
    /\ seasons' = RolledBack(seasons, txWrites[t])
    /\ ReturnWith(t, "season_closed", "none")

\* SELECT id FROM seasons WHERE status = 'active' FOR UPDATE
LockActive(t) ==
    /\ txPc[t] = "targetRead"
    /\ ~TargetMissing(txTarget[t])
    /\ ~TargetClosed(txTarget[t])
    /\ \A s \in ActiveLockSet(seasons) : ~LockedByOther(t, s)
    /\ txLocks' = [txLocks EXCEPT ![t] = @ \cup ActiveLockSet(seasons)]
    /\ txPc' = [txPc EXCEPT ![t] = "activeLocked"]
    /\ UNCHANGED <<seasons, txSlug, txTarget, txWrites, txResult, txDetail, txConn,
                   calls, last>>
    /\ UNCHANGED appVars

\* UPDATE seasons SET status = 'draft' WHERE status = 'active' AND slug <> ?
Demote(t) ==
    /\ txPc[t] = "activeLocked"
    /\ \A s \in DemoteSet(t) : ~LockedByOther(t, s)
    /\ txLocks' = [txLocks EXCEPT ![t] = @ \cup DemoteSet(t)]
    /\ txWrites' = [txWrites EXCEPT ![t] =
                       Overwrite(@, [s \in DemoteSet(t) |-> DemotedStatus])]
    /\ txPc' = [txPc EXCEPT ![t] = "demoted"]
    /\ UNCHANGED <<seasons, txSlug, txTarget, txResult, txDetail, txConn, calls, last>>
    /\ UNCHANGED appVars

\* UPDATE seasons SET status = 'active' WHERE slug = ?
Promote(t) ==
    /\ txPc[t] = "demoted"
    /\ \A s \in PromoteSet(t) : ~LockedByOther(t, s)
    /\ txLocks' = [txLocks EXCEPT ![t] = @ \cup PromoteSet(t)]
    /\ txWrites' = [txWrites EXCEPT ![t] =
                       Overwrite(@, [s \in PromoteSet(t) |-> PromotedStatus])]
    /\ txPc' = [txPc EXCEPT ![t] = "promoted"]
    /\ UNCHANGED <<seasons, txSlug, txTarget, txResult, txDetail, txConn, calls, last>>
    /\ UNCHANGED appVars

\* conn.commit(); return { ok: true }
Commit(t) ==
    /\ txPc[t] = "promoted"
    /\ seasons' = Committed(seasons, txWrites[t])
    /\ ReturnWith(t, "ok", "none")

\* The statement the call is about to await, by position.
NextStatement(t) ==
    CASE txPc[t] = "begun" -> "select_target"
      [] txPc[t] = "targetRead" ->
            IF TargetMissing(txTarget[t]) \/ TargetClosed(txTarget[t])
            THEN "rollback" ELSE "select_active"
      [] txPc[t] = "activeLocked" -> "demote"
      [] txPc[t] = "demoted" -> "promote"
      [] txPc[t] = "promoted" -> "commit"
      [] OTHER -> "none"

\* catch (err) { try { rollback } catch {}; return tx_failed, detail }
Throw(t) ==
    /\ InFlight(t)
    /\ seasons' = RolledBack(seasons, txWrites[t])
    /\ ReturnWith(t, "tx_failed", NextStatement(t))

\* conn.beginTransaction() throws: caught like any later statement.
BeginThrows(t, slug) ==
    /\ ~InFlight(t)
    /\ \A u \in Txs : u < t => InFlight(u)
    /\ calls < MaxCalls
    /\ calls' = calls + 1
    /\ txPc' = [txPc EXCEPT ![t] = "returned"]
    /\ txSlug' = [txSlug EXCEPT ![t] = slug]
    /\ txTarget' = [txTarget EXCEPT ![t] = "unread"]
    /\ txLocks' = [txLocks EXCEPT ![t] = {}]
    /\ txWrites' = [txWrites EXCEPT ![t] = NoWrites]
    /\ txResult' = [txResult EXCEPT ![t] = "tx_failed"]
    /\ txDetail' = [txDetail EXCEPT ![t] = "begin"]
    /\ txConn' = [txConn EXCEPT ![t] =
                     [opened |-> 1, ended |-> EndsInFinally("tx_failed"),
                      rollbacks |-> RollbacksIssued("tx_failed", "begin")]]
    /\ last' = Recorded([op |-> "activate", slug |-> slug, ret |-> 0,
                         rows |-> << >>, result |-> "tx_failed",
                         opened |-> 1, ended |-> EndsInFinally("tx_failed"),
                         stmts |-> 0, keys |-> {}, nulls |-> {}])
    /\ UNCHANGED seasons
    /\ UNCHANGED appVars

\* ----------------------------------------------------------- withConn
\* Variant: conn.end() only after fn returned normally (no finally).
WithConnEndsOnSuccess(threw) == IF threw THEN 0 ELSE 1

\* try { return await fn(conn) } finally { await conn.end() }
WithConnEnds(threw) == 1

\* The record of a call that went through withConn and ran one statement.
ThroughConn(op, slug, ret, rows, threw) ==
    [op |-> op, slug |-> slug, ret |-> ret, rows |-> rows,
     result |-> IF threw THEN "threw" ELSE "returned",
     opened |-> 1, ended |-> WithConnEnds(threw), stmts |-> 1, keys |-> {}, nulls |-> {}]

\* The keys among ks that the argument of a call carries.
Present(input, ks) == {k \in ks : input[k] # Undefined}

\* The keys among ks that the argument of a call carries with the value null.
Nulls(input, ks) == {k \in ks : input[k] = Null}

\* The record r of a call whose argument carried the keys ks.
WithKeys(r, ks) == [r EXCEPT !.keys = ks]

\* The record r of a call whose argument carried null for the keys ns.
WithNulls(r, ns) == [r EXCEPT !.nulls = ns]

\* A call starts: one more repository call.
Call == calls < MaxCalls /\ calls' = calls + 1

\* ------------------------------------------------------ insertSeason
\* What the caller may pass; insertSeason reads slug, name, description,
\* startAt and endAt of it.
CreateFields ==
    [slug : Slugs, name : Names, description : Descriptions \cup {Null, Undefined},
     startAt : {"s1"}, endAt : {"e1"}, status : Statuses \cup {Undefined}]

\* The key of it that insertSeason does not read.
CreateKeys == {"status"}

\* Variant: the status passed by the caller is inserted.
InsertedRowCallerStatus(fields) ==
    Row(fields.slug,
        IF fields.status = Undefined THEN "draft" ELSE fields.status,
        fields.name,
        IF fields.description = Undefined THEN Null ELSE fields.description,
        fields.startAt, fields.endAt)

\* INSERT ... VALUES (?, ?, ?, ?, ?, 'draft'), description ?? null.
InsertedRow(fields) ==
    Row(fields.slug, "draft", fields.name,
        IF fields.description = Undefined THEN Null ELSE fields.description,
        fields.startAt, fields.endAt)

\* The slug is the unique key of the table: inserting an existing slug fails
\* and the error leaves withConn through its finally.
Create(fields) ==
    /\ Call
    /\ IF fields.slug \in DOMAIN seasons
       THEN /\ seasons' = seasons
            /\ last' = Recorded(WithKeys(ThroughConn("create", fields.slug, 0, << >>, TRUE),
                                          Present(fields, CreateKeys)))
       ELSE /\ seasons' = seasons @@ (fields.slug :> InsertedRow(fields))
            /\ last' = Recorded(WithKeys(ThroughConn("create", fields.slug,
                                                     InsertedRow(fields).id, << >>, FALSE),
                                          Present(fields, CreateKeys)))
    /\ UNCHANGED txVars
    /\ UNCHANGED appVars

\* ------------------------------------------------- patchSeasonBySlug
\* The column a key of the patch is written to.
PatchColumn(key) ==
    CASE key = "name" -> "name"
      [] key = "description" -> "description"
      [] key = "startAt" -> "start_at"
      [] key = "endAt" -> "end_at"
      [] OTHER -> key

PatchKeys == {"name", "description", "startAt", "endAt", "status"}

\* Variant: every key of the patch that is set goes into the SET list.
PatchSetsAnyKey(patch) ==
    {k \in PatchKeys : patch[k] \notin {Null, Undefined}}

\* Variant: description is tested like the other keys (!= null).
PatchSetsNoNull(patch) ==
    {k \in {"name", "description", "startAt", "endAt"} :
        patch[k] \notin {Null, Undefined}}

\* The keys that make it into the SET list: name, startAt, endAt when
\* != null, description when !== undefined.
PatchSets(patch) ==
    (IF patch.name \notin {Null, Undefined} THEN {"name"} ELSE {})
    \cup (IF patch.description # Undefined THEN {"description"} ELSE {})
    \cup (IF patch.startAt \notin {Null, Undefined} THEN {"startAt"} ELSE {})
    \cup (IF patch.endAt \notin {Null, Undefined} THEN {"endAt"} ELSE {})

\* Variant: the empty SET list is not returned early.
NoStatementNever(sets) == FALSE

\* if (sets.length === 0) return 0;
NoStatement(sets) == sets = {}

\* UPDATE seasons SET <sets> WHERE slug = ?
PatchedRow(row, patch) ==
    [c \in DOMAIN row |->
        IF \E k \in PatchSets(patch) : PatchColumn(k) = c
        THEN patch[CHOOSE k \in PatchSets(patch) : PatchColumn(k) = c]
        ELSE row[c]]

Patches ==
    [name : {"n2", Null, Undefined},
     description : Descriptions \cup {Null, Undefined},
     startAt : {"s2", Null, Undefined},
     endAt : {"e2", Null, Undefined},
     status : {"active", Undefined}]

\* Number of rows an UPDATE ... WHERE slug = ? matches (result.affectedRows).
Matched(tbl, slug) == IF slug \in DOMAIN tbl THEN 1 ELSE 0

Patch(slug, patch) ==
    /\ Call
    /\ IF NoStatement(PatchSets(patch))
       THEN /\ seasons' = seasons
            /\ last' = Recorded([op |-> "patch", slug |-> slug, ret |-> 0,
                                 rows |-> << >>, result |-> "returned",
                                 opened |-> 0, ended |-> 0, stmts |-> 0,
                                 keys |-> Present(patch, PatchKeys),
                                 nulls |-> Nulls(patch, PatchKeys)])
       ELSE /\ slug \in DOMAIN seasons => ~LockedByAny(slug)
            /\ seasons' = [s \in DOMAIN seasons |->
                             IF s = slug THEN PatchedRow(seasons[s], patch)
                             ELSE seasons[s]]
            /\ last' = Recorded(WithNulls(
                                  WithKeys(ThroughConn("patch", slug,
                                                       Matched(seasons, slug), << >>, FALSE),
                                           Present(patch, PatchKeys)),
                                  Nulls(patch, PatchKeys)))
    /\ UNCHANGED txVars
    /\ UNCHANGED appVars

\* --------------------------------------------------- setSeasonClosed
\* Variant: closing writes the draft status.
ClosedStatusDraft == "draft"

ClosedStatus == "closed"

\* UPDATE seasons SET status = 'closed' WHERE slug = ?
Close(slug) ==
    /\ Call
    /\ slug \in DOMAIN seasons => ~LockedByAny(slug)
    /\ seasons' = [s \in DOMAIN seasons |->
                     IF s = slug THEN [seasons[s] EXCEPT !.status = ClosedStatus]
                     ELSE seasons[s]]
    /\ last' = Recorded(ThroughConn("close", slug, Matched(seasons, slug), << >>, FALSE))
    /\ UNCHANGED txVars
    /\ UNCHANGED appVars

\* ---------------------------------------------------------- the reads
\* Plain SELECTs read the committed rows and wait for no lock.
\* rows of SELECT ... WHERE slug = ? LIMIT 1
RowsBySlug(tbl, slug) == IF slug \in DOMAIN tbl THEN <<tbl[slug]>> ELSE << >>

\* Variant: the active lookup returns the first row whatever its status.
RowsActiveAnyStatus(tbl) ==
    {<<tbl[s]>> : s \in DOMAIN tbl} \cup (IF DOMAIN tbl = {} THEN {<< >>} ELSE {})

\* The possible rows of SELECT ... WHERE status = 'active' LIMIT 1 (which of
\* several active rows is returned is up to storage).
RowsActive(tbl) ==
    IF ActiveRows(tbl) = {} THEN {<< >>} ELSE {<<tbl[s]>> : s \in ActiveRows(tbl)}

\* return rows[0] ?? null
IsNullResult(rows) == rows = << >>

GetBySlug(slug) ==
    /\ Call
    /\ last' = Recorded(ThroughConn("getBySlug", slug, 0, RowsBySlug(seasons, slug), FALSE))
    /\ UNCHANGED <<seasons, txVars>>
    /\ UNCHANGED appVars

GetActive ==
    /\ Call
    /\ \E rows \in RowsActive(seasons) :
          last' = Recorded(ThroughConn("getActive", 0, 0, rows, FALSE))
    /\ UNCHANGED <<seasons, txVars>>
    /\ UNCHANGED appVars

\* listSeasons: all rows; the order of the result is not modelled.
List ==
    /\ Call
    /\ last' = Recorded(ThroughConn("list", 0, Cardinality(DOMAIN seasons), << >>, FALSE))
    /\ UNCHANGED <<seasons, txVars>>
    /\ UNCHANGED appVars

WithConnOps == {"list", "getBySlug", "getActive", "create", "patch", "close"}

\* The statement of a withConn operation throws: nothing is written and the
\* error leaves withConn through its finally.
StatementThrows(op, slug, ks) ==
    /\ Call
    /\ last' = Recorded(WithKeys(ThroughConn(op, slug, 0, << >>, TRUE), ks))
    /\ UNCHANGED <<seasons, txVars>>
    /\ UNCHANGED appVars

\* mysql.createConnection throws: the call has no connection and fails.
ConnectThrows(op, slug, ks) ==
    /\ Call
    /\ last' = Recorded([op |-> op, slug |-> slug, ret |-> 0, rows |-> << >>,
                         result |-> "threw", opened |-> 0, ended |-> 0, stmts |-> 0,
                         keys |-> ks, nulls |-> {}])
    /\ UNCHANGED <<seasons, txVars>>
    /\ UNCHANGED appVars

\* ------------------------------------------------------ specifications
\* The inputs of the specifications about overlapping calls: patches of
\* name and description, creations without a status key.
NamePatches ==
    {p \in Patches : p.startAt = Undefined /\ p.endAt = Undefined /\ p.status = Undefined}

PlainCreates == {f \in CreateFields : f.status = Undefined}

Crud ==
    \/ \E f \in PlainCreates : Create(f)
    \/ \E s \in Slugs, p \in NamePatches : Patch(s, p)
    \/ \E s \in Slugs : Close(s)

TxSteps ==
    \/ \E t \in Txs : LockTarget(t)
    \/ \E t \in Txs : RollbackNotFound(t)
    \/ \E t \in Txs : RollbackClosed(t)
    \/ \E t \in Txs : LockActive(t)
    \/ \E t \in Txs : Demote(t)
    \/ \E t \in Txs : Promote(t)
    \/ \E t \in Txs : Commit(t)

\* Concurrent requests, every storage statement succeeds.
Next ==
    \/ \E t \in Txs, s \in Slugs : Begin(t, s)
    \/ TxSteps
    \/ Crud

Spec == Init /\ [][Next]_vars

\* Concurrent requests; any awaited statement of an activation may throw.
NextF ==
    \/ Next
    \/ \E t \in Txs : Throw(t)
    \/ \E t \in Txs, s \in Slugs : BeginThrows(t, s)

SpecF == Init /\ [][NextF]_vars

\* Activate calls do not overlap each other (the other operations are free).
BeginSeq(t, slug) ==
    /\ \A u \in Txs : ~InFlight(u)
    /\ Begin(t, slug)

NextSeq ==
    \/ \E t \in Txs, s \in Slugs : BeginSeq(t, s)
    \/ TxSteps
    \/ Crud
    \/ \E t \in Txs : Throw(t)

SpecSeq == Init /\ [][NextSeq]_vars

\* Activate calls that do not overlap, starting from a table that may hold
\* several active rows.
InitDup ==
    /\ seasons \in TablesAnyActive
    /\ txPc = [t \in Txs |-> "idle"]
    /\ txSlug = [t \in Txs |-> 0]
    /\ txTarget = [t \in Txs |-> "unread"]
    /\ txLocks = [t \in Txs |-> {}]
    /\ txWrites = [t \in Txs |-> NoWrites]
    /\ txResult = [t \in Txs |-> "none"]
    /\ txDetail = [t \in Txs |-> "none"]
    /\ txConn = [t \in Txs |-> NoConn]
    /\ calls = 0
    /\ last = NotRecorded
    /\ AppNotStarted

SpecDup == InitDup /\ [][NextSeq]_vars

\* The statements of activation t.
StepOf(t) ==
    \/ LockTarget(t)
    \/ RollbackNotFound(t)
    \/ RollbackClosed(t)
    \/ LockActive(t)
    \/ Demote(t)
    \/ Promote(t)
    \/ Commit(t)

\* Concurrent activate and close calls, every statement succeeds; a
\* statement that can run (its rows are not locked by another transaction)
\* eventually runs.  The table may hold several active rows, as it does
\* after two overlapping activations have both committed.
NextWait ==
    \/ \E t \in Txs, s \in Slugs : Begin(t, s)
    \/ \E t \in Txs : StepOf(t)
    \/ \E s \in Slugs : Close(s)

FairSteps == \A t \in Txs : WF_vars(StepOf(t))

SpecWait == InitDup /\ [][NextWait]_vars /\ FairSteps

\* The calls recorded, with every input.
InitCrud ==
    /\ seasons \in Tables
    /\ txPc = [t \in Txs |-> "idle"]
    /\ txSlug = [t \in Txs |-> 0]
    /\ txTarget = [t \in Txs |-> "unread"]
    /\ txLocks = [t \in Txs |-> {}]
    /\ txWrites = [t \in Txs |-> NoWrites]
    /\ txResult = [t \in Txs |-> "none"]
    /\ txDetail = [t \in Txs |-> "none"]
    /\ txConn = [t \in Txs |-> NoConn]
    /\ calls = 0
    /\ last = NoCall
    /\ AppNotStarted

SlugArgs(op) == IF op \in {"list", "getActive"} THEN {0} ELSE Slugs

\* The keys of the argument of a call of op that reaches withConn: a patch
\* gets there only with a SET list that is not empty.
ThrownKeys(op, patches) ==
    IF op = "patch"
    THEN {Present(p, PatchKeys) : p \in {q \in patches : ~NoStatement(PatchSets(q))}}
    ELSE {{}}

\* The patches of the specification of the plain calls: at most one of the
\* four recognized keys present, or all four with a value, or all four with
\* null for name, startAt and endAt; a status key comes with no recognized
\* key or with a name.
PatchInputs ==
    {p \in Patches :
        /\ \/ Cardinality(Present(p, PatchKeys \ {"status"})) <= 1
           \/ \A k \in PatchKeys \ {"status"} : p[k] \notin {Null, Undefined}
           \/ /\ \A k \in {"name", "startAt", "endAt"} : p[k] = Null
              /\ p.description # Undefined
        /\ p.status # Undefined => Present(p, PatchKeys) \subseteq {"name", "status"}}

\* The creations of the specification of the plain calls: any description,
\* any status or none.
CreateInputs == {f \in CreateFields : f.name = "n1"}

\* Every call through withConn with its inputs, a throwing statement and a
\* failing connection included; no activation.
NextCrud ==
    \/ \E f \in CreateInputs : Create(f)
    \/ \E s \in Slugs, p \in PatchInputs : Patch(s, p)
    \/ \E s \in Slugs : Close(s)
    \/ \E s \in Slugs : GetBySlug(s)
    \/ GetActive
    \/ List
    \/ \E op \in WithConnOps : \E s \in SlugArgs(op), ks \in ThrownKeys(op, NamePatches) :
          StatementThrows(op, s, ks)
    \/ \E op \in WithConnOps : \E s \in SlugArgs(op), ks \in ThrownKeys(op, NamePatches) :
          ConnectThrows(op, s, ks)

SpecCrud == InitCrud /\ [][NextCrud]_vars

\* The inputs of the specification of the whole lifecycle: creations and
\* patches that carry a status key or none.
LifeCreates == {f \in CreateFields : f.name = "n1" /\ f.description = Undefined}

LifePatches ==
    {p \in Patches : p.description = Undefined /\ p.startAt = Undefined
                      /\ p.endAt = Undefined /\ p.name # Null}

BeginThrowsSeq(t, slug) ==
    /\ \A u \in Txs : ~InFlight(u)
    /\ BeginThrows(t, slug)

\* All seven operations, calls recorded; activate calls do not overlap each
\* other, the other calls run at any point.
NextLife ==
    \/ \E f \in LifeCreates : Create(f)
    \/ \E s \in Slugs, p \in LifePatches : Patch(s, p)
    \/ \E s \in Slugs : Close(s)
    \/ \E s \in Slugs : GetBySlug(s)
    \/ GetActive
    \/ List
    \/ \E op \in WithConnOps : \E s \in SlugArgs(op), ks \in ThrownKeys(op, NamePatches) :
          StatementThrows(op, s, ks)
    \/ \E op \in WithConnOps \cup {"activate"} :
          \E s \in SlugArgs(op), ks \in ThrownKeys(op, NamePatches) :
             ConnectThrows(op, s, ks)
    \/ \E t \in Txs, s \in Slugs : BeginSeq(t, s)
    \/ \E t \in Txs, s \in Slugs : BeginThrowsSeq(t, s)
    \/ TxSteps
    \/ \E t \in Txs : Throw(t)

SpecLife == InitCrud /\ [][NextLife]_vars

\* Two activate calls for distinct seasons and nothing else.
BeginPair(t, slug) ==
    /\ txPc[t] = "idle"
    /\ \A u \in Txs \ {t} : txSlug[u] # slug
    /\ Begin(t, slug)

NextPair ==
    \/ \E t \in Txs, s \in Slugs : BeginPair(t, s)
    \/ TxSteps

SpecPair == Init /\ [][NextPair]_vars

\* ==================================================== the HTTP application
\* The seasons repository while the specifications of the application run:
\* no season, no call.
RepoIdle ==
    /\ seasons = << >>
    /\ txPc = [t \in Txs |-> "idle"]
    /\ txSlug = [t \in Txs |-> 0]
    /\ txTarget = [t \in Txs |-> "unread"]
    /\ txLocks = [t \in Txs |-> {}]
    /\ txWrites = [t \in Txs |-> NoWrites]
    /\ txResult = [t \in Txs |-> "none"]
    /\ txDetail = [t \in Txs |-> "none"]
    /\ txConn = [t \in Txs |-> NoConn]
    /\ calls = 0
    /\ last = NotRecorded

\* What a statement of a request can do: succeed, or fail because
\* mysql.createConnection throws, or because connection.execute throws.
Faults == {"none", "connect", "execute"}

\* A response: status, error code, and what the request did to connections.
Response(op, status, error, opened, ended) ==
    [NoResponse EXCEPT !.op = op, !.status = status, !.error = error,
                       !.opened = opened, !.ended = ended]

\* What process.env.ADMIN_KEY may be: unset, empty, a key.
AdminKeys == {Undefined, "", "k1"}

\* What a request may carry as x-admin-key: nothing, the empty string, the
\* key, another key.
HeaderKeys == {Undefined, "", "k1", "k2"}

\* ------------------------------------------------------------- sessions.js
\* SESSION_TTL_MINUTES, in ticks of the clock.
Ttl == 1

\* nowPlusMinutes(ttlMinutes)
ExpiresAt(t) == t + Ttl

\* crypto.randomBytes(32): an id no row has.
FreshSid(tbl) == CHOOSE sid \in Sids \ DOMAIN tbl : \A other \in Sids \ DOMAIN tbl : sid <= other

\* INSERT INTO sessions (id, user_id, expires_at) VALUES (?, ?, ?)
SessionRow(userId, t) ==
    [user_id |-> userId, expires_at |-> ExpiresAt(t), revoked_at |-> NullTime]

\* Variant: the expiry is not tested.
SessionRowsNoExpiry(tbl, sid, t) ==
    IF sid \in DOMAIN tbl /\ tbl[sid].revoked_at = NullTime
    THEN <<tbl[sid]>> ELSE << >>

\* SELECT user_id FROM sessions WHERE id = ? AND revoked_at IS NULL
\* AND expires_at > NOW() LIMIT 1
SessionRows(tbl, sid, t) ==
    IF sid \in DOMAIN tbl /\ tbl[sid].revoked_at = NullTime /\ tbl[sid].expires_at > t
    THEN <<tbl[sid]>> ELSE << >>

\* rows[0]?.user_id ?? null
SessionUser(rows) == IF rows = << >> THEN NoUser ELSE rows[1].user_id

\* Variant: revoking writes revoked_at again on a revoked row.
RevokedAgain(tbl, sid, t) ==
    [s \in DOMAIN tbl |->
        IF s = sid THEN [tbl[s] EXCEPT !.revoked_at = t] ELSE tbl[s]]

\* UPDATE sessions SET revoked_at = NOW() WHERE id = ? AND revoked_at IS NULL
Revoked(tbl, sid, t) ==
    [s \in DOMAIN tbl |->
        IF s = sid /\ tbl[s].revoked_at = NullTime
        THEN [tbl[s] EXCEPT !.revoked_at = t] ELSE tbl[s]]

\* Connections a function of sessions.js has opened when it completes.
ConnOpened(fault) == IF fault = "connect" THEN 0 ELSE 1

\* Connections it has ended: connection.end() follows the statement, with
\* no finally.
ConnEnded(fault) == IF fault = "none" THEN 1 ELSE 0

\* The record of a call of a function of sessions.js that used a connection.
SessionCall(op, fault) ==
    [Response(op, 0, "none", ConnOpened(fault), ConnEnded(fault))
        EXCEPT !.threw = fault # "none"]

\* createSession(dbConfig, userId)
CreateSession(userId, fault) ==
    /\ Sids \ DOMAIN sessions # {}
    /\ IF fault = "none"
       THEN /\ sessions' = sessions @@ (FreshSid(sessions) :> SessionRow(userId, now))
            /\ resp' = [SessionCall("createSession", fault)
                           EXCEPT !.sid = FreshSid(sessions), !.user = userId]
       ELSE /\ sessions' = sessions
            /\ resp' = SessionCall("createSession", fault)
    /\ UNCHANGED <<adminKey, boot, dbReady, dbError, users, news, newsIds, now>>
    /\ UNCHANGED repoVars

\* getSession(dbConfig, sid)
GetSession(sid, fault) ==
    /\ IF sid = NoSid
       THEN resp' = [Response("getSession", 0, "none", 0, 0) EXCEPT !.sid = sid]
       ELSE resp' = [SessionCall("getSession", fault)
                       EXCEPT !.sid = sid,
                              !.user = IF fault = "none"
                                       THEN SessionUser(SessionRows(sessions, sid, now))
                                       ELSE NoUser]
    /\ UNCHANGED <<adminKey, boot, dbReady, dbError, sessions, users, news, newsIds, now>>
    /\ UNCHANGED repoVars

\* revokeSession(dbConfig, sid)
RevokeSession(sid, fault) ==
    /\ IF sid = NoSid
       THEN /\ sessions' = sessions
            /\ resp' = [Response("revokeSession", 0, "none", 0, 0) EXCEPT !.sid = sid]
       ELSE /\ sessions' = IF fault = "none" THEN Revoked(sessions, sid, now) ELSE sessions
            /\ resp' = [SessionCall("revokeSession", fault) EXCEPT !.sid = sid]
    /\ UNCHANGED <<adminKey, boot, dbReady, dbError, users, news, newsIds, now>>
    /\ UNCHANGED repoVars

\* Time passes.
Tick ==
    /\ now < MaxTime
    /\ now' = now + 1
    /\ UNCHANGED <<adminKey, boot, dbReady, dbError, sessions, users, news, newsIds, resp>>
    /\ UNCHANGED repoVars

\* ------------------------------------------------------ schema bootstrap
\* ensureSchema().then(() => { dbReady = true; ... })
BootResolves ==
    /\ boot = "pending"
    /\ boot' = "resolved"
    /\ dbReady' = TRUE
    /\ UNCHANGED <<adminKey, dbError, sessions, users, news, newsIds, now, resp>>
    /\ UNCHANGED repoVars

\* .catch((err) => { dbReady = false; dbError = err?.message || String(err); ... })
BootRejects ==
    /\ boot = "pending"
    /\ boot' = "rejected"
    /\ dbReady' = FALSE
    /\ dbError' = "schema_error"
    /\ UNCHANGED <<adminKey, sessions, users, news, newsIds, now, resp>>
    /\ UNCHANGED repoVars

\* ------------------------------------------------------------- the gates
\* !!ADMIN_KEY: a string is truthy unless it is empty; unset is falsy.
Truthy(k) == k \notin {Undefined, ""}

\* requireAdmin: false (401 Unauthorized) if
\* !ADMIN_KEY || req.headers["x-admin-key"] !== ADMIN_KEY
RequireAdmin(key) == ~(~Truthy(adminKey) \/ key # adminKey)

\* Variant: an empty key matches an empty header.
IsAdminKeyEmptyPasses(key) == adminKey # Undefined /\ key = adminKey

\* isAdminKey
IsAdminKey(key) == Truthy(adminKey) /\ key = adminKey

\* getEffectiveRole(req, userRole): userRole is null at every call site.
GetEffectiveRole(key, userRole) ==
    IF IsAdminKey(key) THEN "admin"
    ELSE IF userRole = Null THEN "user" ELSE userRole

\* roleRank
RoleRank(role) ==
    CASE role = "admin" -> 3
      [] role = "editor" -> 2
      [] OTHER -> 1

\* requireMinRole: false (403 Forbidden) if the effective role ranks lower.
RequireMinRole(key, minRole) ==
    ~(RoleRank(GetEffectiveRole(key, Null)) < RoleRank(minRole))

\* ------------------------------------------------- login, me, logout
\* What /__dev/login-as/:userId may get: a user id, or something that is
\* not a positive integer.
UserIdInputs == UserIds \cup {0}

\* POST /__dev/login-as/:userId
LoginAs(key, userId, fault) ==
    /\ IF ~RequireAdmin(key)
       THEN /\ resp' = Response("loginAs", 401, "Unauthorized", 0, 0)
            /\ sessions' = sessions
       ELSE IF ~dbReady
       THEN /\ resp' = Response("loginAs", 503, "db_not_ready", 0, 0)
            /\ sessions' = sessions
       ELSE IF userId \notin UserIds
       THEN /\ resp' = Response("loginAs", 400, "invalid_user_id", 0, 0)
            /\ sessions' = sessions
       ELSE IF fault # "none"
       THEN /\ resp' = Response("loginAs", 500, "db_error", ConnOpened(fault), ConnEnded(fault))
            /\ sessions' = sessions
       ELSE /\ Sids \ DOMAIN sessions # {}
            /\ sessions' = sessions @@ (FreshSid(sessions) :> SessionRow(userId, now))
            /\ resp' = [Response("loginAs", 200, "none", 1, 1)
                           EXCEPT !.user = userId, !.sid = FreshSid(sessions)]
    /\ UNCHANGED <<adminKey, boot, dbReady, dbError, users, news, newsIds, now>>
    /\ UNCHANGED repoVars

\* What can fail in GET /auth/me: the statement of getSession, or the
\* handler's own connection and statement.
AuthMeFaults == Faults \cup {"connect2", "execute2"}

\* SELECT id, email, display_name FROM users WHERE id = ? LIMIT 1
UserRows(userId) == IF userId \in users THEN <<userId>> ELSE << >>

\* GET /auth/me
AuthMe(sid, fault) ==
    /\ resp' =
         IF ~dbReady THEN Response("authMe", 503, "db_not_ready", 0, 0)
         ELSE IF sid = NoSid THEN Response("authMe", 401, "UNAUTHORIZED", 0, 0)
         ELSE IF fault \in {"connect", "execute"}
         THEN [Response("authMe", 500, "db_error", ConnOpened(fault), ConnEnded(fault))
                  EXCEPT !.sid = sid]
         ELSE LET userId == SessionUser(SessionRows(sessions, sid, now))
              IN  IF userId = NoUser
                  THEN [Response("authMe", 401, "UNAUTHORIZED", 1, 1) EXCEPT !.sid = sid]
                  ELSE IF fault = "connect2"
                  THEN [Response("authMe", 500, "db_error", 1, 1) EXCEPT !.sid = sid]
                  ELSE IF fault = "execute2"
                  THEN [Response("authMe", 500, "db_error", 2, 1) EXCEPT !.sid = sid]
                  ELSE IF UserRows(userId) = << >>
                  THEN [Response("authMe", 401, "UNAUTHORIZED", 2, 2) EXCEPT !.sid = sid]
                  ELSE [Response("authMe", 200, "none", 2, 2)
                           EXCEPT !.sid = sid, !.user = UserRows(userId)[1]]
    /\ UNCHANGED <<adminKey, boot, dbReady, dbError, sessions, users, news, newsIds, now>>
    /\ UNCHANGED repoVars

\* Variant: logout revokes whether or not the database is ready.
LogoutRevokesAlways(sid) == sid # NoSid

\* if (dbReady && sid)
LogoutRevokes(sid) == dbReady /\ sid # NoSid

\* POST /auth/logout: whatever revokeSession does, the cookie is cleared
\* and the response is { ok: true }.
Logout(sid, fault) ==
    /\ IF LogoutRevokes(sid)
       THEN /\ sessions' = IF fault = "none" THEN Revoked(sessions, sid, now) ELSE sessions
            /\ resp' = [Response("logout", 200, "none", ConnOpened(fault), ConnEnded(fault))
                           EXCEPT !.sid = sid]
       ELSE /\ sessions' = sessions
            /\ resp' = [Response("logout", 200, "none", 0, 0) EXCEPT !.sid = sid]
    /\ UNCHANGED <<adminKey, boot, dbReady, dbError, users, news, newsIds, now>>
    /\ UNCHANGED repoVars

\* ------------------------------------------------------------------ news
\* !value for the values a JSON body can give a key: absent, null, "".
Falsy(v) == v \in {Undefined, Null, ""}

\* Slugs a body can carry: a clean one, one with an upper-case letter, one
\* with no letter or digit at all.
RawSlugs == {"a", "B", "!"}

\* normalizeSlug: trim, lower-case, whitespace to dashes, drop what is not
\* [a-z0-9-], collapse and trim dashes.
NormalizeSlug(input) ==
    CASE Falsy(input) -> ""
      [] input = "B" -> "b"
      [] input = "!" -> ""
      [] OTHER -> input

\* String(req.params.slug || "").trim().toLowerCase()
TrimLower(input) ==
    CASE input = "B" -> "b"
      [] OTHER -> input

\* String(title).trim()
Trimmed(text) == IF text = " " THEN "" ELSE text

\* !Number.isInteger(id) || id <= 0
InvalidId(id) == id \notin Nat \ {0}

\* What :id may be: the id of a row there is or was, or 0.
IdInputs == NewsIds \cup {0}

\* Statements of a handler with two statements: the second may fail too.
NewsFaults == Faults \cup {"execute2"}

\* INSERT INTO news (slug, title, excerpt, content, image_url, status,
\* published_at) VALUES (?, ?, ?, ?, ?, 'draft', NULL).  excerpt and
\* image_url, optional text columns no route tests, are left out.
NewsRow(slug, title, content) ==
    [slug |-> slug, title |-> title, content |-> content,
     status |-> "draft", published_at |-> NullTime]

\* UNIQUE KEY slug: the statement fails with a duplicate-entry error.
Duplicate(tbl, id, slug) == \E o \in DOMAIN tbl : o # id /\ tbl[o].slug = slug

\* The table without the row id.
Without(tbl, id) == [o \in DOMAIN tbl \ {id} |-> tbl[o]]

\* The answer of a gate of minRole followed by the readiness test, when
\* one of them answers; NoResponse when the request goes on.
Gate(op, key, minRole) ==
    IF ~RequireMinRole(key, minRole) THEN Response(op, 403, "Forbidden", 0, 0)
    ELSE IF ~dbReady THEN Response(op, 503, "db_not_ready", 0, 0)
    ELSE NoResponse

\* The answer of a catch block: the connection was opened unless
\* createConnection threw, and is not ended.
Caught(op, fault, error) ==
    Response(op, IF error = "slug_already_exists" THEN 409 ELSE 500, error,
             ConnOpened(fault), 0)

\* The answer that carries news items.
Items(op, status, ids) == [Response(op, status, "none", 1, 1) EXCEPT !.items = ids]

CreateBodies == [slug : RawSlugs \cup {Undefined}, title : {Undefined, "t1"},
                 content : {Undefined, "c1"}]

\* POST /admin/news
AdminNewsCreate(key, body, fault) ==
    /\ LET g == Gate("create", key, "editor")
           cleanSlug == NormalizeSlug(body.slug)
       IN  IF g # NoResponse
           THEN resp' = g /\ UNCHANGED <<news, newsIds>>
           ELSE IF Falsy(body.slug) \/ Falsy(body.title) \/ Falsy(body.content)
           THEN resp' = Response("create", 400, "missing_fields", 0, 0)
                /\ UNCHANGED <<news, newsIds>>
           ELSE IF cleanSlug = ""
           THEN resp' = Response("create", 400, "invalid_slug", 0, 0)
                /\ UNCHANGED <<news, newsIds>>
           ELSE IF fault # "none"
           THEN resp' = Caught("create", fault, "db_error")
                /\ UNCHANGED <<news, newsIds>>
           ELSE IF Duplicate(news, 0, cleanSlug)
           THEN resp' = Caught("create", "execute", "slug_already_exists")
                /\ UNCHANGED <<news, newsIds>>
           ELSE /\ newsIds < MaxNews
                /\ newsIds' = newsIds + 1
                /\ news' = news @@ (newsIds + 1 :>
                              NewsRow(cleanSlug, Trimmed(body.title), body.content))
                /\ resp' = [Items("create", 201, {newsIds + 1}) EXCEPT !.error = "draft"]
    /\ UNCHANGED <<adminKey, boot, dbReady, dbError, sessions, users, now>>
    /\ UNCHANGED repoVars

\* GET /admin/news
AdminNewsList(key, fault) ==
    /\ LET g == Gate("list", key, "editor")
       IN  resp' = IF g # NoResponse THEN g
                   ELSE IF fault # "none" THEN Caught("list", fault, "db_error")
                   ELSE Items("list", 200, DOMAIN news)
    /\ UNCHANGED <<adminKey, boot, dbReady, dbError, sessions, users, news, newsIds, now>>
    /\ UNCHANGED repoVars

\* Variant: publish matches the row whatever its status.
PublishMatchesAnyStatus(tbl, id) == id \in DOMAIN tbl

\* WHERE id = ? AND status = 'draft'
PublishMatches(tbl, id) == id \in DOMAIN tbl /\ tbl[id].status = "draft"

\* SET status = 'published', published_at = COALESCE(published_at, NOW())
Published(tbl, id, t) ==
    [tbl EXCEPT ![id].status = "published",
                ![id].published_at = IF @ = NullTime THEN t ELSE @]

\* POST /admin/news/:id/publish
AdminNewsPublish(key, id, fault) ==
    /\ LET g == Gate("publish", key, "admin")
       IN  IF g # NoResponse
           THEN resp' = g /\ news' = news
           ELSE IF InvalidId(id)
           THEN resp' = Response("publish", 400, "invalid_id", 0, 0) /\ news' = news
           ELSE IF fault \in {"connect", "execute"}
           THEN resp' = Caught("publish", fault, "db_error") /\ news' = news
           ELSE IF ~PublishMatches(news, id)
           THEN resp' = Response("publish", 404, "not_found_or_not_draft", 1, 1)
                /\ news' = news
           ELSE /\ news' = Published(news, id, now)
                /\ resp' = IF fault = "execute2" THEN Caught("publish", fault, "db_error")
                            ELSE Items("publish", 200, {id})
    /\ UNCHANGED <<adminKey, boot, dbReady, dbError, sessions, users, newsIds, now>>
    /\ UNCHANGED repoVars

\* WHERE id = ? AND status = 'published'
UnpublishMatches(tbl, id) == id \in DOMAIN tbl /\ tbl[id].status = "published"

\* Variant: unpublish keeps published_at.
UnpublishedKeepsTime(tbl, id) == [tbl EXCEPT ![id].status = "draft"]

\* SET status = 'draft', published_at = NULL
Unpublished(tbl, id) ==
    [tbl EXCEPT ![id].status = "draft", ![id].published_at = NullTime]

\* POST /admin/news/:id/unpublish
AdminNewsUnpublish(key, id, fault) ==
    /\ LET g == Gate("unpublish", key, "admin")
       IN  IF g # NoResponse
           THEN resp' = g /\ news' = news
           ELSE IF InvalidId(id)
           THEN resp' = Response("unpublish", 400, "invalid_id", 0, 0) /\ news' = news
           ELSE IF fault \in {"connect", "execute"}
           THEN resp' = Caught("unpublish", fault, "db_error") /\ news' = news
           ELSE IF ~UnpublishMatches(news, id)
           THEN resp' = Response("unpublish", 404, "not_found_or_not_published", 1, 1)
                /\ news' = news
           ELSE /\ news' = Unpublished(news, id)
                /\ resp' = IF fault = "execute2" THEN Caught("unpublish", fault, "db_error")
                            ELSE Items("unpublish", 200, {id})
    /\ UNCHANGED <<adminKey, boot, dbReady, dbError, sessions, users, newsIds, now>>
    /\ UNCHANGED repoVars

\* What a patch body can carry for each key it may carry: nothing
\* (Undefined), null, a value that is refused, a value that is taken.
NewsPatches == [slug : {Undefined, Null, "B", "!"}, title : {Undefined, " ", "t2"},
                content : {Undefined, "", "c1"}]

\* The bodies requests are made with: at most one key, or all three with
\* values that are taken.
NewsPatchInputs ==
    {body \in NewsPatches :
        \/ Cardinality({k \in {"slug", "title", "content"} : body[k] # Undefined}) <= 1
        \/ body = [slug |-> "B", title |-> "t2", content |-> "c1"]}

\* Keys of the body that reach the SET list: those with key != null.
NewsPatchKeys(body) == {k \in {"slug", "title", "content"} : body[k] \notin {Undefined, Null}}

\* UPDATE news SET ${updates.join(", ")} WHERE id = ?
NewsPatched(row, body) ==
    [row EXCEPT !.slug = IF "slug" \in NewsPatchKeys(body) THEN NormalizeSlug(body.slug) ELSE @,
                !.title = IF "title" \in NewsPatchKeys(body) THEN Trimmed(body.title) ELSE @,
                !.content = IF "content" \in NewsPatchKeys(body) THEN body.content ELSE @]

\* PATCH /admin/news/:id
AdminNewsPatch(key, id, body, fault) ==
    /\ LET g == Gate("patch", key, "editor")
           ks == NewsPatchKeys(body)
       IN  IF g # NoResponse
           THEN resp' = g /\ news' = news
           ELSE IF InvalidId(id)
           THEN resp' = Response("patch", 400, "invalid_id", 0, 0) /\ news' = news
           ELSE IF "slug" \in ks /\ NormalizeSlug(body.slug) = ""
           THEN resp' = Response("patch", 400, "invalid_slug", 0, 0) /\ news' = news
           ELSE IF "title" \in ks /\ Trimmed(body.title) = ""
           THEN resp' = Response("patch", 400, "invalid_title", 0, 0) /\ news' = news
           ELSE IF "content" \in ks /\ body.content = ""
           THEN resp' = Response("patch", 400, "invalid_content", 0, 0) /\ news' = news
           ELSE IF ks = {}
           THEN resp' = Response("patch", 400, "no_fields_to_update", 0, 0) /\ news' = news
           ELSE IF fault \in {"connect", "execute"}
           THEN resp' = Caught("patch", fault, "db_error") /\ news' = news
           ELSE IF id \notin DOMAIN news
           THEN resp' = Response("patch", 404, "not_found", 1, 1) /\ news' = news
           ELSE IF "slug" \in ks /\ Duplicate(news, id, NormalizeSlug(body.slug))
           THEN resp' = Caught("patch", "execute", "slug_already_exists") /\ news' = news
           ELSE /\ news' = [news EXCEPT ![id] = NewsPatched(@, body)]
                /\ resp' = IF fault = "execute2" THEN Caught("patch", fault, "db_error")
                            ELSE Items("patch", 200, {id})
    /\ UNCHANGED <<adminKey, boot, dbReady, dbError, sessions, users, newsIds, now>>
    /\ UNCHANGED repoVars

\* DELETE /admin/news/:id
AdminNewsDelete(key, id, fault) ==
    /\ LET g == Gate("delete", key, "admin")
       IN  IF g # NoResponse
           THEN resp' = g /\ news' = news
           ELSE IF InvalidId(id)
           THEN resp' = Response("delete", 400, "invalid_id", 0, 0) /\ news' = news
           ELSE IF fault # "none"
           THEN resp' = Caught("delete", fault, "db_error") /\ news' = news
           ELSE IF id \notin DOMAIN news
           THEN resp' = Response("delete", 404, "not_found", 1, 1) /\ news' = news
           ELSE /\ news' = Without(news, id)
                /\ resp' = Items("delete", 200, {id})
    /\ UNCHANGED <<adminKey, boot, dbReady, dbError, sessions, users, newsIds, now>>
    /\ UNCHANGED repoVars

\* Variant: the public list returns every item.
PublishedIdsAll(tbl) == DOMAIN tbl

\* SELECT ... FROM news WHERE status = 'published' ORDER BY published_at DESC LIMIT 20
PublishedIds(tbl) == {id \in DOMAIN tbl : tbl[id].status = "published"}

\* GET /content/news
ContentNews(fault) ==
    /\ resp' = IF ~dbReady THEN Response("contentNews", 503, "db_not_ready", 0, 0)
               ELSE IF fault # "none" THEN Caught("contentNews", fault, "db_error")
               ELSE Items("contentNews", 200, PublishedIds(news))
    /\ UNCHANGED <<adminKey, boot, dbReady, dbError, sessions, users, news, newsIds, now>>
    /\ UNCHANGED repoVars

\* SELECT ... FROM news WHERE slug = ? AND status = 'published' LIMIT 1
PublishedBySlug(tbl, slug) ==
    {id \in DOMAIN tbl : tbl[id].slug = slug /\ tbl[id].status = "published"}

\* Slugs a reader can ask for.
SlugParams == {"a", "b", "B"}

\* GET /content/news/:slug
ContentNewsSlug(param, fault) ==
    /\ resp' = IF ~dbReady THEN Response("contentNewsSlug", 503, "db_not_ready", 0, 0)
               ELSE IF fault # "none" THEN Caught("contentNewsSlug", fault, "db_error")
               ELSE IF PublishedBySlug(news, TrimLower(param)) = {}
               THEN Response("contentNewsSlug", 404, "not_found", 1, 1)
               ELSE Items("contentNewsSlug", 200, PublishedBySlug(news, TrimLower(param)))
    /\ UNCHANGED <<adminKey, boot, dbReady, dbError, sessions, users, news, newsIds, now>>
    /\ UNCHANGED repoVars

\* GET /admin/schema
AdminSchema(key, fault) ==
    /\ LET g == Gate("schema", key, "admin")
       IN  resp' = IF g # NoResponse THEN g
                   ELSE IF fault # "none" THEN Caught("schema", fault, "db_error")
                   ELSE Response("schema", 200, "none", 1, 1)
    /\ UNCHANGED <<adminKey, boot, dbReady, dbError, sessions, users, news, newsIds, now>>
    /\ UNCHANGED repoVars

\* GET /health and GET /admin/whoami: no gate, no database.
NoDatabaseRoute(op) ==
    /\ resp' = Response(op, 200, "none", 0, 0)
    /\ UNCHANGED <<adminKey, boot, dbReady, dbError, sessions, users, news, newsIds, now>>
    /\ UNCHANGED repoVars

\* Nothing configured, nothing stored, no request yet.
InitApp ==
    /\ adminKey \in AdminKeys
    /\ boot \in {"skipped", "pending"}
    /\ dbReady = FALSE
    /\ dbError = Null
    /\ sessions = << >>
    /\ users \in SUBSET UserIds
    /\ news = << >>
    /\ newsIds = 0
    /\ now = 1
    /\ resp = NoResponse
    /\ RepoIdle

\* What a caller may pass for a session id.
SidInputs == Sids \cup {NoSid}

\* The functions of sessions.js called in any order, with any statement
\* failing, while time passes.
InitSessions ==
    /\ InitApp
    /\ adminKey = Undefined
    /\ boot = "skipped"
    /\ users = {}

NextSessions ==
    \/ \E u \in UserIds, f \in Faults : CreateSession(u, f)
    \/ \E sid \in SidInputs, f \in Faults : GetSession(sid, f)
    \/ \E sid \in SidInputs, f \in Faults : RevokeSession(sid, f)
    \/ Tick

SpecSessions == InitSessions /\ [][NextSessions]_vars

\* Login, me and logout requests at any time around the schema bootstrap,
\* with any key and cookie, any statement failing, while time passes.  User 1
\* has a row in users.
InitAuth ==
    /\ InitApp
    /\ users = {1}

NextAuth ==
    \/ BootResolves
    \/ BootRejects
    \/ \E key \in HeaderKeys, u \in UserIdInputs, f \in Faults : LoginAs(key, u, f)
    \/ \E sid \in SidInputs, f \in AuthMeFaults : AuthMe(sid, f)
    \/ \E sid \in SidInputs, f \in Faults : Logout(sid, f)
    \/ Tick

SpecAuth == InitAuth /\ [][NextAuth]_vars

\* The keys the requests of the news routes carry: the key, another key.
NewsKeys == {"k1", "k2"}

\* The news routes after a successful bootstrap, with any body and id, any
\* statement failing.
InitNews ==
    /\ InitApp
    /\ adminKey = "k1"
    /\ boot = "pending"
    /\ users = {}

NextNews ==
    \/ BootResolves
    \/ \E key \in NewsKeys, body \in CreateBodies, f \in Faults : AdminNewsCreate(key, body, f)
    \/ \E key \in NewsKeys, f \in Faults : AdminNewsList(key, f)
    \/ \E key \in NewsKeys, id \in IdInputs, f \in NewsFaults : AdminNewsPublish(key, id, f)
    \/ \E key \in NewsKeys, id \in IdInputs, f \in NewsFaults : AdminNewsUnpublish(key, id, f)
    \/ \E key \in NewsKeys, id \in IdInputs, body \in NewsPatchInputs, f \in NewsFaults :
          AdminNewsPatch(key, id, body, f)
    \/ \E key \in NewsKeys, id \in IdInputs, f \in Faults : AdminNewsDelete(key, id, f)
    \/ \E f \in Faults : ContentNews(f)
    \/ \E param \in SlugParams, f \in Faults : ContentNewsSlug(param, f)

SpecNews == InitNews /\ [][NextNews]_vars

\* Every route, before, during and after the schema bootstrap, with any
\* ADMIN_KEY and any x-admin-key header.  The requests carry one well-formed
\* body; the sessions table may hold a session of an earlier run of the
\* server.
GateBody == [slug |-> "a", title |-> "t1", content |-> "c1"]

GatePatch == [slug |-> Undefined, title |-> "t2", content |-> Undefined]

\* The statements of these requests succeed: the gates and the readiness
\* test come before any statement.
GateFaults == {"none"}

\* A request with this header to a route behind requireMinRole.
MinRoleRequest(key) ==
    \/ \E f \in GateFaults : AdminSchema(key, f)
    \/ \E f \in GateFaults : AdminNewsCreate(key, GateBody, f)
    \/ \E f \in GateFaults : AdminNewsList(key, f)
    \/ \E id \in NewsIds, f \in GateFaults : AdminNewsPublish(key, id, f)
    \/ \E id \in NewsIds, f \in GateFaults : AdminNewsPatch(key, id, GatePatch, f)
    \/ \E id \in NewsIds, f \in GateFaults : AdminNewsUnpublish(key, id, f)
    \/ \E id \in NewsIds, f \in GateFaults : AdminNewsDelete(key, id, f)

\* A request with this header to the route behind requireAdmin.
AdminRequest(key) == \E f \in GateFaults : LoginAs(key, 1, f)

\* A request to a route without a gate that uses the database when ready.
OpenRequest ==
    \/ \E sid \in SidInputs, f \in GateFaults : AuthMe(sid, f)
    \/ \E f \in GateFaults : ContentNews(f)
    \/ \E f \in GateFaults : ContentNewsSlug("a", f)

InitGate ==
    /\ adminKey \in AdminKeys
    /\ boot \in {"skipped", "pending"}
    /\ dbReady = FALSE
    /\ dbError = Null
    /\ sessions \in {<< >>, 1 :> SessionRow(1, 1)}
    /\ users = {1}
    /\ news = << >>
    /\ newsIds = 0
    /\ now = 1
    /\ resp = NoResponse
    /\ RepoIdle

NextGate ==
    \/ BootResolves
    \/ BootRejects
    \/ \E key \in HeaderKeys : MinRoleRequest(key)
    \/ \E key \in HeaderKeys : AdminRequest(key)
    \/ OpenRequest
    \/ \E sid \in SidInputs, f \in GateFaults : Logout(sid, f)
    \/ \E op \in {"health", "whoami"} : NoDatabaseRoute(op)

SpecGate == InitGate /\ [][NextGate]_vars

\* ------------------------------------------------------------- claims
AtMostOneActive(tbl) == Cardinality(ActiveRows(tbl)) <= 1

\* Transaction t returns in this step.
Returns(t) == txPc[t] # "returned" /\ txPc'[t] = "returned"

\* C1: when activate calls do not overlap, at most one season is active
\* whenever no activate call is in flight (after each completed call).
C1_SingleActiveSequential ==
    (\A t \in Txs : ~InFlight(t)) => AtMostOneActive(seasons)

\* A second activation has succeeded and its target is the one active season.
C1_Witness ==
    \E t \in Txs :
        /\ txPc[t] = "returned" /\ txResult[t] = "ok" /\ calls >= 2
        /\ ActiveRows(seasons) = {txSlug[t]}
        /\ \E s \in DOMAIN seasons : s # txSlug[t] /\ seasons[s].status = "draft"

\* C2: in every committed state of the table, under any interleaving of
\* activate, close, create and patch calls, at most one season is active.
C2_SingleActiveAlways == Cardinality(ActiveRows(seasons)) < 2

\* C3: once two activate calls for distinct seasons that both read their
\* target as draft have returned, exactly one of the two targets is active
\* and the other is draft.
C3_PairOutcome ==
    \A t \in Txs : \A u \in Txs \ {t} :
        (/\ txPc[t] = "returned" /\ txPc[u] = "returned"
         /\ txTarget[t] = "draft" /\ txTarget[u] = "draft")
        => \/ /\ seasons[txSlug[t]].status = "active"
              /\ seasons[txSlug[u]].status = "draft"
           \/ /\ seasons[txSlug[u]].status = "active"
              /\ seasons[txSlug[t]].status = "draft"

\* Transaction t has passed its lock acquisition and has not yet committed
\* or rolled back.
PastLocks(t) == txPc[t] \in {"activeLocked", "demoted", "promoted"}

\* C4: two activate calls for different existing non-closed seasons never
\* both hold their locks with neither committed nor rolled back.
C4_Serialized ==
    \A t \in Txs : \A u \in Txs \ {t} : ~(PastLocks(t) /\ PastLocks(u))

\* C5: once the committed status of a season is closed, it is closed in
\* every later committed state.
C5_ClosedTerminal ==
    [][\A s \in DOMAIN seasons :
          seasons[s].status = "closed"
          => (s \in DOMAIN seasons' /\ seasons'[s].status = "closed")]_vars

\* An activate call on a closed season has returned and an activation of
\* another season has gone through, the closed season still being closed.
C5_Witness ==
    \E t \in Txs : \E u \in Txs \ {t} :
        /\ txPc[t] = "returned" /\ txResult[t] = "season_closed"
        /\ seasons[txSlug[t]].status = "closed"
        /\ txPc[u] = "returned" /\ txResult[u] = "ok"

\* C6: a step of an activate call changes the committed table only when it
\* is the commit of a call that returns ok; a call that returns a failure
\* has changed nothing; and whenever a committed row goes from active to
\* draft, the same step commits a call whose target is active afterwards.
C6_AllOrNothing ==
    [][/\ \A t \in Txs :
            (txPc'[t] # txPc[t] /\ ~(txPc[t] = "promoted" /\ txResult'[t] = "ok"))
            => seasons' = seasons
       /\ \A t \in Txs :
            (Returns(t) /\ txResult'[t] # "ok") => seasons' = seasons
       /\ (\E s \in DOMAIN seasons :
              seasons[s].status = "active" /\ seasons'[s].status = "draft")
          => \E t \in Txs :
                /\ txPc[t] = "promoted" /\ Returns(t) /\ txResult'[t] = "ok"
                /\ seasons'[txSlug[t]].status = "active"]_vars

\* A call failed after its demote statement had run: the season that was
\* active is still active and the target is still draft.
C6_Witness ==
    \E t \in Txs :
        /\ txPc[t] = "returned" /\ txResult[t] = "tx_failed"
        /\ txDetail[t] \in {"promote", "commit"}
        /\ txTarget[t] = "draft" /\ seasons[txSlug[t]].status = "draft"
        /\ \E s \in DOMAIN seasons : s # txSlug[t] /\ seasons[s].status = "active"

\* C7: an activate call whose target is closed reads it as closed, and its
\* next step returns season_closed, releases its locks and writes, and
\* leaves the committed table unchanged.
C7_ClosedGuard ==
    [][\A t \in Txs :
          /\ (txPc[t] = "begun" /\ txPc'[t] # "begun"
              /\ TargetOf(seasons, txSlug[t]) = "closed")
             => (txTarget'[t] = "closed" /\ seasons' = seasons)
          /\ (txPc[t] = "targetRead" /\ txTarget[t] = "closed"
              /\ txPc'[t] # "targetRead")
             => /\ txPc'[t] = "returned"
                /\ txResult'[t] = "season_closed"
                /\ txLocks'[t] = {} /\ txWrites'[t] = NoWrites
                /\ seasons' = seasons]_vars

\* activate of a closed season returned season_closed while another season
\* is active.
C7_Witness ==
    \E t \in Txs :
        /\ txPc[t] = "returned" /\ txResult[t] = "season_closed"
        /\ seasons[txSlug[t]].status = "closed"
        /\ \E s \in DOMAIN seasons : seasons[s].status = "active"

\* C8: an activate call whose slug has no row reads null, and its next step
\* returns season_not_found and leaves the committed table unchanged; no
\* other call returns season_not_found.
C8_NotFoundGuard ==
    [][\A t \in Txs :
          /\ (txPc[t] = "begun" /\ txPc'[t] # "begun"
              /\ txSlug[t] \notin DOMAIN seasons)
             => (txTarget'[t] = Null /\ seasons' = seasons)
          /\ (txPc[t] = "targetRead" /\ txTarget[t] = Null
              /\ txPc'[t] # "targetRead")
             => /\ txPc'[t] = "returned"
                /\ txResult'[t] = "season_not_found"
                /\ seasons' = seasons
          /\ (Returns(t) /\ txResult'[t] = "season_not_found")
             => txTarget[t] = Null]_vars

\* activate of a slug with no row returned season_not_found.
C8_Witness ==
    \E t \in Txs :
        /\ txPc[t] = "returned" /\ txResult[t] = "season_not_found"
        /\ txSlug[t] \notin DOMAIN seasons
        /\ seasons # << >>

\* C9: the commit of a successful activate (calls not overlapping) makes the
\* target active, every other season that was active draft, and leaves every
\* other draft or closed season as it was.
C9_DemotionWithoutClose ==
    [][\A t \in Txs :
          (txPc[t] = "promoted" /\ Returns(t) /\ txResult'[t] = "ok")
          => /\ DOMAIN seasons' = DOMAIN seasons
             /\ \A s \in DOMAIN seasons :
                   IF s = txSlug[t]
                   THEN seasons'[s] = [seasons[s] EXCEPT !.status = "active"]
                   ELSE IF seasons[s].status = "active"
                        THEN seasons'[s] = [seasons[s] EXCEPT !.status = "draft"]
                        ELSE seasons'[s] = seasons[s]]_vars

\* activate(B) is about to commit while a different season A is active, or
\* has just committed with another season draft and a closed one kept.
C9_Witness ==
    \E t \in Txs :
        /\ txPc[t] = "promoted"
        /\ \E s \in DOMAIN seasons :
              /\ s # txSlug[t] /\ seasons[s].status = "active"
              /\ s \in DOMAIN txWrites[t] /\ txWrites[t][s] = "draft"
        /\ \E c \in DOMAIN seasons : seasons[c].status = "closed"

\* C10: an activate call (not overlapping another) that read its target as
\* active and in which no statement threw returns ok and leaves the
\* committed table unchanged, the target being the one active season.
C10_IdempotentReactivation ==
    [][\A t \in Txs :
          (txTarget[t] = "active" /\ Returns(t) /\ txDetail'[t] = "none")
          => /\ txResult'[t] = "ok"
             /\ seasons' = seasons
             /\ ActiveRows(seasons') = {txSlug[t]}]_vars

\* activate(S) returned ok twice in a row, the second time on the active S.
C10_Witness ==
    \E t \in Txs :
        /\ txPc[t] = "returned" /\ txResult[t] = "ok" /\ txTarget[t] = "active"
        /\ ActiveRows(seasons) = {txSlug[t]}
        /\ calls >= 2

\* C11: a call in which a statement between beginTransaction and the promote
\* (or the commit) throws returns in that step, after one more rollback, with
\* tx_failed and the failed statement as detail; a call returns tx_failed in
\* no other case, and a call that caught an error never returns ok,
\* season_not_found or season_closed.
C11_TxFailedReporting ==
    [][\A t \in Txs :
          /\ Throw(t)
             => /\ txPc'[t] = "returned" /\ txResult'[t] = "tx_failed"
                /\ txDetail'[t] = NextStatement(t) /\ txDetail'[t] # "none"
                /\ txConn'[t].rollbacks > txConn[t].rollbacks
                /\ txConn'[t].ended = 1
          /\ (\E s \in Slugs : BeginThrows(t, s))
             => /\ txResult'[t] = "tx_failed" /\ txDetail'[t] = "begin"
                /\ txConn'[t].rollbacks >= 1
          /\ txPc'[t] = "returned"
             => (txResult'[t] = "tx_failed" <=> txDetail'[t] # "none")]_vars

\* A call whose demote statement threw has returned tx_failed after a
\* rollback, its connection closed.
C11_Witness ==
    \E t \in Txs :
        /\ txPc[t] = "returned" /\ txResult[t] = "tx_failed"
        /\ txDetail[t] = "demote"
        /\ txConn[t] = [opened |-> 1, ended |-> 1, rollbacks |-> 1]

\* C12: the commit of a successful activate(T) that overlaps no other
\* activate leaves T the only active row, whatever number of rows were
\* active before, and every other row that was active is draft afterwards.
C12_EstablishesSingleActive ==
    [][\A t \in Txs :
          (txPc[t] = "promoted" /\ Returns(t) /\ txResult'[t] = "ok")
          => /\ ActiveRows(seasons') = {txSlug[t]}
             /\ \A s \in ActiveRows(seasons) \ {txSlug[t]} :
                   seasons'[s].status = "draft"]_vars

\* activate(T) is about to commit over two other active rows.
C12_Witness ==
    \E t \in Txs :
        /\ txPc[t] = "promoted"
        /\ Cardinality(ActiveRows(seasons) \ {txSlug[t]}) >= 2
        /\ \A s \in ActiveRows(seasons) \ {txSlug[t]} :
              s \in DOMAIN txWrites[t] /\ txWrites[t][s] = "draft"


\* C13: the status of a season changes to active only in the commit of an
\* activate call for that very season, and from active to draft only in the
\* commit of an activate call for a different season; no step of create,
\* patch or close (or of anything else) makes either change.
StatusBefore(s) == IF s \in DOMAIN seasons THEN seasons[s].status ELSE "absent"

Commits(t) == txPc[t] = "promoted" /\ txPc'[t] = "returned" /\ txResult'[t] = "ok"

C13_LifecycleTransitions ==
    [][\A s \in DOMAIN seasons' :
          /\ (StatusBefore(s) # "active" /\ seasons'[s].status = "active")
             => \E t \in Txs : Commits(t) /\ txSlug[t] = s
          /\ (StatusBefore(s) = "active" /\ seasons'[s].status = "draft")
             => \E t \in Txs : Commits(t) /\ txSlug[t] # s]_vars

\* An activation about to commit a promotion and a demotion, a patch having
\* run meanwhile.
C13_Witness ==
    \E t \in Txs :
        /\ txPc[t] = "promoted"
        /\ last.op = "patch"
        /\ StatusBefore(txSlug[t]) = "draft"
        /\ \E s \in DOMAIN txWrites[t] :
              s # txSlug[t] /\ seasons[s].status = "active" /\ txWrites[t][s] = "draft"


\* The step is a call of the operation op that has returned (not thrown).
CallReturned(op) ==
    calls' = calls + 1 /\ last'.op = op /\ last'.result = "returned"

\* C14: a close call for slug s, whatever the status of s, leaves s closed
\* with every other field of it as before, changes no other row and adds or
\* removes none; for a slug with no row it changes nothing.
C14_CloseUnconditional ==
    [][\A s \in Slugs :
          (CallReturned("close") /\ last'.slug = s)
          => /\ DOMAIN seasons' = DOMAIN seasons
             /\ \A r \in DOMAIN seasons :
                   seasons'[r] = IF r = s
                                 THEN [seasons[r] EXCEPT !.status = "closed"]
                                 ELSE seasons[r]
             /\ s \notin DOMAIN seasons => seasons' = seasons]_vars

\* A close call has just closed a patched season while another is active.
C14_Witness ==
    /\ last.op = "close" /\ last.result = "returned" /\ last.ret = 1
    /\ last.slug \in DOMAIN seasons
    /\ seasons[last.slug].status = "closed"
    /\ seasons[last.slug].name = "n2"
    /\ \E r \in DOMAIN seasons : r # last.slug /\ seasons[r].status = "active"


\* The step is a call of the operation op, returned or thrown.
CallOf(op) == calls' = calls + 1 /\ last'.op = op

\* C15: a create call that inserts a row inserts it with status draft
\* whether the caller passed a status (draft, active or closed) or none, and
\* changes no existing row; a create call that fails changes nothing.
C15_CreateForcesDraft ==
    [][CallOf("create")
       => IF last'.result = "returned"
          THEN /\ last'.slug \notin DOMAIN seasons
               /\ DOMAIN seasons' = DOMAIN seasons \cup {last'.slug}
               /\ seasons'[last'.slug].status = "draft"
               /\ seasons'[last'.slug].slug = last'.slug
               /\ last'.ret = seasons'[last'.slug].id
               /\ \A r \in DOMAIN seasons : seasons'[r] = seasons[r]
          ELSE seasons' = seasons]_vars

\* A create call has just inserted a draft row while another row is active.
C15_Witness ==
    /\ last.op = "create" /\ last.result = "returned"
    /\ last.slug \in DOMAIN seasons
    /\ last.ret = seasons[last.slug].id
    /\ seasons[last.slug].status = "draft"
    /\ last.keys = {"status"}
    /\ seasons[last.slug].description = "d1"
    /\ \E r \in DOMAIN seasons : r # last.slug /\ seasons[r].status = "active"


\* C16: a patch call for slug s changes, on the row of s only, no column
\* other than those of name, description, start_at and end_at whose key is
\* present in the patch; status, slug and id of every row stay as they are,
\* every other row is unchanged and no row is added or removed, whether or
\* not the patch carries a status key.
C16_PatchFrame ==
    [][CallOf("patch")
       => /\ DOMAIN seasons' = DOMAIN seasons
          /\ \A r \in DOMAIN seasons :
                /\ r # last'.slug => seasons'[r] = seasons[r]
                /\ seasons'[r].status = seasons[r].status
                /\ seasons'[r].slug = seasons[r].slug
                /\ seasons'[r].id = seasons[r].id
                /\ \A k \in (PatchKeys \ {"status"}) \ last'.keys :
                      seasons'[r][PatchColumn(k)] = seasons[r][PatchColumn(k)]]_vars

\* A patch call with a name and a status key has just written the name of
\* an active season whose start an earlier patch had written.
C16_Witness ==
    /\ last.op = "patch" /\ last.result = "returned" /\ last.ret = 1
    /\ last.keys = {"name", "status"}
    /\ last.slug \in DOMAIN seasons
    /\ seasons[last.slug].status = "active"
    /\ seasons[last.slug].name = "n2"
    /\ seasons[last.slug].start_at = "s2"
    /\ seasons[last.slug].end_at = "e1"
    /\ \E r \in DOMAIN seasons : r # last.slug /\ seasons[r].name = "n1"


\* C17: a patch call whose patch has none of the four recognized keys (an
\* empty patch, or one with only a status key) returns 0 without an error,
\* opens no connection and issues no statement, and leaves the table as it
\* is, for a slug that has a row and for one that has none.
Unrecognized(ks) == ks \cap (PatchKeys \ {"status"}) = {}

C17_PatchNoOp ==
    [][(CallOf("patch") /\ Unrecognized(last'.keys))
       => /\ last'.result = "returned"
          /\ last'.ret = 0
          /\ last'.stmts = 0
          /\ last'.opened = 0
          /\ seasons' = seasons]_vars

\* A patch call with only a status key, for a slug that has a row, has
\* returned 0 without a statement.
C17_Witness ==
    /\ last.op = "patch" /\ last.result = "returned"
    /\ last.keys = {"status"}
    /\ last.ret = 0 /\ last.stmts = 0 /\ last.opened = 0
    /\ last.slug \in DOMAIN seasons
    /\ seasons[last.slug].status = "active"


\* C18: a patch call for a season whose status is closed changes none of
\* the fields of that season.
C18_PatchOnlyWhileNotClosed ==
    [][(CallOf("patch") /\ last'.slug \in DOMAIN seasons
        /\ seasons[last'.slug].status = "closed")
       => seasons'[last'.slug] = seasons[last'.slug]]_vars

\* C19: getActive returns null exactly when no row has committed status
\* active and otherwise a row of the table whose status is active;
\* getBySlug returns null exactly when the slug has no row and otherwise the
\* row of that slug; both return rather than throw; and a getActive that is
\* the next call after an activate call that returned ok returns the season
\* that call activated.
C19_PointLookups ==
    [][/\ (CallOf("getActive") /\ GetActive)
          => /\ last'.result = "returned"
             /\ IsNullResult(last'.rows) <=> ActiveRows(seasons) = {}
             /\ ~IsNullResult(last'.rows)
                => /\ last'.rows[1].status = "active"
                   /\ last'.rows[1].slug \in DOMAIN seasons
                   /\ last'.rows[1] = seasons[last'.rows[1].slug]
             /\ (last.op = "activate" /\ last.result = "ok")
                => /\ ~IsNullResult(last'.rows)
                   /\ last'.rows[1].slug = last.slug
       /\ \A s \in Slugs :
             (CallOf("getBySlug") /\ last'.slug = s /\ GetBySlug(s))
             => /\ last'.result = "returned"
                /\ IsNullResult(last'.rows) <=> s \notin DOMAIN seasons
                /\ ~IsNullResult(last'.rows) => last'.rows[1] = seasons[s]]_vars

\* getActive has just returned the season of an activation that committed
\* and demoted another season.
C19_Witness ==
    /\ last.op = "getActive" /\ last.result = "returned"
    /\ ~IsNullResult(last.rows)
    /\ \E t \in Txs : /\ txPc[t] = "returned" /\ txResult[t] = "ok"
                       /\ txSlug[t] = last.rows[1].slug
    /\ calls = 2
    /\ \E r \in DOMAIN seasons : r # last.rows[1].slug /\ seasons[r].status = "draft"


\* C20: every call of the seven operations opens at most one connection
\* and, once it has completed, has ended that connection exactly once, on
\* the returning and on every throwing or rolling-back path; while an
\* activate call is in flight its one connection is open and not yet ended.
C20_ConnectionRelease ==
    /\ last.opened <= 1
    /\ last.ended = last.opened
    /\ (last.op \in WithConnOps /\ last.stmts = 1) => last.opened = 1
    /\ \A t \in Txs :
          /\ txConn[t].opened <= 1
          /\ txPc[t] = "returned" => txConn[t].opened = 1 /\ txConn[t].ended = 1
          /\ InFlight(t) => txConn[t].opened = 1 /\ txConn[t].ended = 0
          /\ txPc[t] = "idle" => txConn[t] = NoConn
    /\ last.op = "activate" => last.opened = 1 \/ last.result = "threw"

\* An activate call whose explicit rollback threw has returned tx_failed
\* with its connection ended once, and the call after it, whose statement
\* threw, has ended its connection too.
C20_Witness ==
    /\ \E t \in Txs : /\ txPc[t] = "returned" /\ txResult[t] = "tx_failed"
                       /\ txDetail[t] = "rollback"
                       /\ txConn[t] = [opened |-> 1, ended |-> 1, rollbacks |-> 2]
    /\ last.op \in WithConnOps /\ last.result = "threw"
    /\ last.opened = 1 /\ last.ended = 1


\* ------------------------------------------------------------ waiting
\* The rows the statement an activation is about to run has to lock.
Needs(t) ==
    CASE txPc[t] = "begun" -> {txSlug[t]} \cap DOMAIN seasons
      [] txPc[t] = "targetRead" ->
            IF TargetMissing(txTarget[t]) \/ TargetClosed(txTarget[t])
            THEN {} ELSE ActiveLockSet(seasons)
      [] txPc[t] = "activeLocked" -> DemoteSet(t)
      [] txPc[t] = "demoted" -> PromoteSet(t)
      [] OTHER -> {}

\* Activation t is blocked on a row lock that activation u holds.
WaitsFor(t, u) == t # u /\ Needs(t) \cap txLocks[u] # {}

NoMutualWait ==
    \A t \in Txs : \A u \in Txs : ~(WaitsFor(t, u) /\ WaitsFor(u, t))

\* C21: under fair scheduling of the statements, no two activations ever
\* wait on each other's locks and every activate call that has begun
\* eventually returns.
C21_BlockedActivationsProgress ==
    /\ []NoMutualWait
    /\ \A t \in Txs : InFlight(t) ~> (txPc[t] = "returned")


\* C22: a patch call that carries null for description and returns has run
\* its statement and, where the slug has a row, left the description of that
\* row null; a key of name, startAt, endAt carried with null leaves its
\* column as it was; and a patch call whose recognized keys are all null
\* name, startAt or endAt returns 0 without a statement and changes nothing.
NullTested == {"name", "startAt", "endAt"}

C22_PatchNullAsymmetric ==
    [][(CallOf("patch") /\ last'.result = "returned")
       => /\ "description" \in last'.nulls
             => /\ last'.stmts = 1
                /\ last'.ret = Matched(seasons, last'.slug)
                /\ last'.slug \in DOMAIN seasons
                   => seasons'[last'.slug].description = Null
          /\ \A k \in NullTested \cap last'.nulls :
                \A r \in DOMAIN seasons :
                   seasons'[r][PatchColumn(k)] = seasons[r][PatchColumn(k)]
          /\ (last'.keys \ {"status"} # {}
              /\ last'.keys \ {"status"} \subseteq NullTested \cap last'.nulls)
             => /\ last'.ret = 0
                /\ last'.stmts = 0
                /\ seasons' = seasons]_vars

\* A patch call with null for all four recognized keys has just cleared
\* the description an earlier patch had set and left the name, the start
\* and the end as they were.
C22_Witness ==
    /\ calls = 2
    /\ last.op = "patch" /\ last.result = "returned" /\ last.ret = 1
    /\ last.nulls = {"name", "description", "startAt", "endAt"}
    /\ last.slug \in DOMAIN seasons
    /\ seasons[last.slug].description = Null
    /\ seasons[last.slug].name = "n2"
    /\ seasons[last.slug].start_at = "s2"
    /\ seasons[last.slug].end_at = "e2"


\* C24: getSession returns a user id only for a session id that has a row
\* which is not revoked and expires strictly later than now, and then the
\* user id createSession stored for it (which no call changes); for no sid,
\* an unknown, a revoked or an expired one it returns null when its
\* statement runs, and for no sid it opens no connection.
SessionLive(sid) ==
    /\ sid \in DOMAIN sessions
    /\ sessions[sid].revoked_at = NullTime
    /\ sessions[sid].expires_at > now

C24_SessionValidity ==
    [][/\ \A sid \in SidInputs, f \in Faults :
             GetSession(sid, f)
             => /\ resp'.user # NoUser
                   => SessionLive(sid) /\ resp'.user = sessions[sid].user_id
                /\ (f = "none" /\ SessionLive(sid)) => resp'.user = sessions[sid].user_id
                /\ ~SessionLive(sid) => resp'.user = NoUser
                /\ (f = "none" \/ sid = NoSid) => ~resp'.threw
                /\ sid = NoSid => resp'.opened = 0
       /\ \A u \in UserIds :
             CreateSession(u, "none")
             => /\ resp'.sid \notin DOMAIN sessions
                /\ sessions'[resp'.sid].user_id = u
       /\ \A sid \in DOMAIN sessions :
             sid \in DOMAIN sessions' /\ sessions'[sid].user_id = sessions[sid].user_id]_vars

\* getSession has just returned the user of a live session, after time has
\* passed, while another session is revoked.
C24_Witness ==
    /\ resp.op = "getSession" /\ resp.user # NoUser
    /\ now > 1
    /\ SessionLive(resp.sid)
    /\ \E o \in DOMAIN sessions : o # resp.sid /\ sessions[o].revoked_at # NullTime
                                   /\ sessions[o].user_id # resp.user


\* C25: a revoked session stays revoked: no call removes a session row,
\* changes a non-null revoked_at or changes an expiry; revokeSession on a
\* live row sets revoked_at, on a revoked row changes nothing, and never
\* changes another row; getSession on a revoked row returns null.
SessionRevoked(sid) == sid \in DOMAIN sessions /\ sessions[sid].revoked_at # NullTime

C25_RevocationPermanent ==
    [][/\ \A s \in DOMAIN sessions :
             /\ s \in DOMAIN sessions'
             /\ sessions'[s].expires_at = sessions[s].expires_at
             /\ SessionRevoked(s) => sessions'[s] = sessions[s]
       /\ \A sid \in SidInputs :
             RevokeSession(sid, "none")
             => /\ ~resp'.threw
                /\ sid \in DOMAIN sessions => sessions'[sid].revoked_at # NullTime
                /\ DOMAIN sessions' = DOMAIN sessions
                /\ \A o \in DOMAIN sessions \ {sid} : sessions'[o] = sessions[o]
       /\ \A sid \in Sids, f \in Faults :
             (SessionRevoked(sid) /\ GetSession(sid, f)) => resp'.user = NoUser]_vars

\* A session revoked at an earlier time has just been revoked again, and
\* another session is still live.
C25_Witness ==
    /\ resp.op = "revokeSession" /\ ~resp.threw
    /\ SessionRevoked(resp.sid)
    /\ sessions[resp.sid].revoked_at < now
    /\ \E o \in DOMAIN sessions : o # resp.sid /\ SessionLive(o)


\* C26: once POST /auth/logout has responded { ok: true } to a request
\* carrying session id S, a GET /auth/me presenting S is not answered with
\* the user, whatever the database did during the logout.
C26_LogoutEndsSession ==
    [][\A sid \in Sids, f \in AuthMeFaults :
          (/\ resp.op = "logout" /\ resp.status = 200 /\ resp.sid = sid
           /\ AuthMe(sid, f))
          => resp'.status # 200 /\ resp'.user = NoUser]_vars


\* C28: a news item has a non-null published_at if and only if its status
\* is published; an item is created as draft with published_at null; a
\* patch changes neither status nor published_at of any item.
PublishedIffTimed ==
    \A id \in DOMAIN news :
        news[id].published_at # NullTime <=> news[id].status = "published"

C28_PublicationInvariant ==
    /\ []PublishedIffTimed
    /\ [][/\ \A id \in DOMAIN news' \ DOMAIN news :
                /\ resp'.op = "create" /\ resp'.status = 201 /\ resp'.error = "draft"
                /\ news'[id].status = "draft" /\ news'[id].published_at = NullTime
          /\ resp'.op = "patch"
             => /\ DOMAIN news' = DOMAIN news
                /\ \A id \in DOMAIN news :
                      /\ news'[id].status = news[id].status
                      /\ news'[id].published_at = news[id].published_at]_vars

\* A patch has just changed the title of a published item, next to a draft.
C28_Witness ==
    /\ resp.op = "patch" /\ resp.status = 200
    /\ \E id \in resp.items :
          /\ news[id].status = "published" /\ news[id].published_at # NullTime
          /\ news[id].title = "t2"
    /\ \E id \in DOMAIN news : news[id].status = "draft"

\* C29: publish changes an item only if it exists with status draft, and
\* unpublish only if it exists with status published; a publish or
\* unpublish whose statement runs on anything else answers 404
\* (not_found_or_not_draft / not_found_or_not_published) and changes no row;
\* an unpublish takes the item back to draft with published_at null.
StatementRan(f) == resp'.opened = 1 /\ f \notin {"connect", "execute"}

OnlyChanged(id) ==
    /\ DOMAIN news' = DOMAIN news
    /\ \A o \in DOMAIN news \ {id} : news'[o] = news[o]

C29_PublishGuards ==
    [][/\ resp'.op = "publish"
          => \A key \in NewsKeys, id \in IdInputs, f \in NewsFaults :
                AdminNewsPublish(key, id, f)
                => /\ news' # news
                      => /\ id \in DOMAIN news /\ news[id].status = "draft"
                         /\ OnlyChanged(id)
                         /\ news'[id].status = "published"
                   /\ (StatementRan(f) /\ ~(id \in DOMAIN news /\ news[id].status = "draft"))
                      => /\ resp'.status = 404 /\ resp'.error = "not_found_or_not_draft"
                         /\ news' = news
                   /\ (StatementRan(f) /\ id \in DOMAIN news /\ news[id].status = "draft")
                      => news'[id].status = "published"
       /\ resp'.op = "unpublish"
          => \A key \in NewsKeys, id \in IdInputs, f \in NewsFaults :
                AdminNewsUnpublish(key, id, f)
                => /\ news' # news
                      => /\ id \in DOMAIN news /\ news[id].status = "published"
                         /\ OnlyChanged(id)
                         /\ news'[id].status = "draft"
                         /\ news'[id].published_at = NullTime
                   /\ (StatementRan(f) /\ ~(id \in DOMAIN news /\ news[id].status = "published"))
                      => /\ resp'.status = 404 /\ resp'.error = "not_found_or_not_published"
                         /\ news' = news
                   /\ (StatementRan(f) /\ id \in DOMAIN news /\ news[id].status = "published")
                      => news'[id].status = "draft"]_vars

\* An item has just been unpublished, so it was published before, and is a
\* draft again, next to an item that is published.
C29_Witness ==
    /\ resp.op = "unpublish" /\ resp.status = 200
    /\ \E id \in resp.items :
          news[id].status = "draft" /\ news[id].published_at = NullTime
    /\ \E id \in DOMAIN news : news[id].status = "published"

\* C30: GET /content/news and GET /content/news/:slug return only items
\* whose status is published at the time of the request; a slug with no
\* published item (a draft, an unpublished or a deleted one) is answered
\* 404 not_found.
C30_PublicReadsPublishedOnly ==
    [][/\ resp'.op \in {"contentNews", "contentNewsSlug"}
          => /\ news' = news
             /\ \A item \in resp'.items :
                   item \in DOMAIN news /\ news[item].status = "published"
       /\ resp'.op = "contentNewsSlug"
          => \A param \in SlugParams, f \in Faults :
                ContentNewsSlug(param, f)
                => /\ \A found \in resp'.items : news[found].slug = TrimLower(param)
                   /\ (f = "none" /\ dbReady
                        /\ ~\E o \in DOMAIN news :
                              /\ news[o].slug = TrimLower(param)
                              /\ news[o].status = "published")
                      => resp'.status = 404 /\ resp'.error = "not_found"]_vars

\* The public list has just returned the published items and left out a
\* draft.
C30_Witness ==
    /\ resp.op = "contentNews" /\ resp.status = 200 /\ resp.items # {}
    /\ resp.items = {id \in DOMAIN news : news[id].status = "published"}
    /\ \E id \in DOMAIN news \ resp.items : news[id].status = "draft"


\* C23: dbReady starts false, becomes true only when the schema bootstrap
\* resolves and never returns to false; it is never true while dbError is
\* set; while it is false no request opens a connection or changes a
\* table: the routes behind requireMinRole (for an authorized request),
\* /__dev/login-as, /auth/me and /content/news* answer 503 db_not_ready,
\* and /auth/logout answers without revoking.
NotReadyAnswer ==
    /\ resp'.status = 503 /\ resp'.error = "db_not_ready"
    /\ resp'.opened = 0
    /\ UNCHANGED <<sessions, news, newsIds>>

C23_ReadinessGate ==
    /\ ~dbReady
    /\ [](dbReady => dbError = Null)
    /\ [][/\ (~dbReady /\ dbReady') => (boot = "pending" /\ boot' = "resolved")
          /\ dbReady => dbReady'
          /\ ~dbReady
             => /\ resp' # resp => resp'.opened = 0
                /\ UNCHANGED <<sessions, news, newsIds>>
                /\ \A key \in HeaderKeys :
                      /\ (IsAdminKey(key) /\ MinRoleRequest(key)) => NotReadyAnswer
                      /\ (RequireAdmin(key) /\ AdminRequest(key)) => NotReadyAnswer
                /\ OpenRequest => NotReadyAnswer
                /\ \A sid \in SidInputs, f \in GateFaults :
                      Logout(sid, f) => resp'.status = 200 /\ resp'.opened = 0]_vars

\* The bootstrap has failed, and a logout carrying a live session of an
\* earlier run has been answered without a connection.
C23_Witness ==
    /\ ~dbReady /\ boot = "rejected" /\ dbError # Null
    /\ resp.op = "logout" /\ resp.status = 200 /\ resp.opened = 0
    /\ SessionLive(resp.sid)

\* C27: a request passes requireMinRole (of editor or admin) and
\* requireAdmin if and only if ADMIN_KEY is set to a non-empty string and
\* the x-admin-key header equals it; a request that does not pass is
\* answered 403 Forbidden (401 Unauthorized by requireAdmin) without a
\* connection and without a change of state.
KeyMatches(key) == adminKey \notin {Undefined, ""} /\ key = adminKey

Rejected(status, error) ==
    /\ resp'.status = status /\ resp'.error = error
    /\ resp'.opened = 0
    /\ UNCHANGED <<adminKey, boot, dbReady, dbError, sessions, users, news, newsIds, now>>

GatePasses(key, error) == resp'.error # error <=> KeyMatches(key)

MinRoleGate(key) ==
    /\ GatePasses(key, "Forbidden")
    /\ ~KeyMatches(key) => Rejected(403, "Forbidden")

C27_AdminGating ==
    [][\A key \in HeaderKeys, f \in GateFaults :
          /\ resp'.op = "schema" => (MinRoleGate(key) \/ ~AdminSchema(key, f))
          /\ resp'.op = "create" => (MinRoleGate(key) \/ ~AdminNewsCreate(key, GateBody, f))
          /\ resp'.op = "list" => (MinRoleGate(key) \/ ~AdminNewsList(key, f))
          /\ resp'.op = "publish"
             => \A id \in NewsIds : (MinRoleGate(key) \/ ~AdminNewsPublish(key, id, f))
          /\ resp'.op = "patch"
             => \A id \in NewsIds : (MinRoleGate(key) \/ ~AdminNewsPatch(key, id, GatePatch, f))
          /\ resp'.op = "unpublish"
             => \A id \in NewsIds : (MinRoleGate(key) \/ ~AdminNewsUnpublish(key, id, f))
          /\ resp'.op = "delete"
             => \A id \in NewsIds : (MinRoleGate(key) \/ ~AdminNewsDelete(key, id, f))
          /\ resp'.op = "loginAs"
             => (LoginAs(key, 1, f)
                 => /\ GatePasses(key, "Unauthorized")
                    /\ ~KeyMatches(key) => Rejected(401, "Unauthorized"))]_vars

\* With a key configured and a draft in the table, a publish request has
\* just been refused.
C27_Witness ==
    /\ adminKey = "k1"
    /\ resp.op = "publish" /\ resp.status = 403 /\ resp.error = "Forbidden"
    /\ \E id \in DOMAIN news : news[id].status = "draft"


\* C31: createSession, getSession and revokeSession have ended every
\* connection they opened when they complete, whether their statement
\* succeeded or threw.
SessionOps == {"createSession", "getSession", "revokeSession"}

C31_SessionConnectionRelease ==
    resp.op \in SessionOps => resp.ended = resp.opened

====
